---- MODULE Spec2Model ----
(***************************************************************************)
(* Model of the backtesting engine of webapp/backtesting_engine.py:        *)
(* BacktestPortfolio (update_prices, execute_trade), DataProvider,         *)
(* BacktestEngine (create_backtest, start_backtest, the _run_backtest      *)
(* worker thread, _simulate_trading_signals, _calculate_metrics and the    *)
(* registry lookups), and of the worker of the AutomationManager of        *)
(* webapp/automation_manager.py.                                           *)
(*                                                                         *)
(* Arithmetic.  The code computes with floats; the model computes with     *)
(* exact rationals.  A rate (commission, slippage) is r / RateDen, an      *)
(* execution price is kept in units of 1/RateDen and every amount of money *)
(* (cash, commission, values) in units of 1/(RateDen*RateDen), so that     *)
(* price * (1 +- slippage) * quantity * commission is an integer.          *)
(***************************************************************************)
EXTENDS Integers, Sequences, FiniteSets, TLC

VARIABLES
    \* ---- a stand-alone BacktestPortfolio driven call by call -------------
    pf,             \* the BacktestPortfolio object
    pf_trades,      \* the Trade objects execute_trade returned, in order
    ret,            \* the last call on pf: operation, arguments, return value
    calls,          \* number of calls made on pf
    \* ---- the BacktestEngine ----------------------------------------------
    now,            \* datetime.now(), in clock ticks
    results,        \* heap of BacktestResult objects, a reference is an index
    active_backtests,     \* self.active_backtests: id -> reference
    completed_backtests,  \* self.completed_backtests: id -> reference
    executor_threads,     \* self.executor_threads: id -> thread
    cache,          \* self.data_provider.cache: cache_key -> series
    threads,        \* the threads start_backtest spawned, each in _run_backtest
    returned,       \* what the registry call made in this step returned
    \* ---- callers ----------------------------------------------------------
    fetch_log,      \* the upstream queries a stand-alone DataProvider made
    request,        \* a request thread inside get_backtest_status or inside
                    \* the join of stop_automation
    \* ---- the AutomationManager -------------------------------------------
    manager,        \* status, stop_event, worker_thread and the callbacks
    tasks,          \* self.tasks: the AutomationTask objects, in dict order
    workers         \* the threads start_automation spawned

pfVars == <<pf, pf_trades, ret, calls>>
engineVars == <<now, results, active_backtests, completed_backtests,
                executor_threads, cache, threads, returned>>
callerVars == <<fetch_log, request>>
autoVars == <<manager, tasks, workers>>
vars == <<pf, pf_trades, ret, calls, now, results, active_backtests,
          completed_backtests, executor_threads, cache, threads, returned,
          fetch_log, request, manager, tasks, workers>>

-----------------------------------------------------------------------------
(* Bounds and scales *)

RateDen == 10       \* rates are multiples of 1/RateDen
MaxCalls == 3       \* calls made on the stand-alone portfolio

Money == RateDen * RateDen          \* money is counted in units of 1/Money

\* Python's None, Optional[x] is None or {x}
None == {}
Some(x) == {x}
TheValue(o) == CHOOSE x \in o : TRUE

\* dict.get(key, default) on a dict modelled as a function
Get(d, key, default) == IF key \in DOMAIN d THEN d[key] ELSE default

\* dict.update / d[key] = value: the entries of e override those of d
Update(d, e) == [k \in (DOMAIN d) \cup (DOMAIN e) |->
                    IF k \in DOMAIN e THEN e[k] ELSE d[k]]

\* del d[key]
Del(d, key) == [k \in (DOMAIN d) \ {key} |-> d[k]]

EmptyDict == [k \in {} |-> 0]

RECURSIVE SumOver(_, _)
\* sum(f[k] for k in S)
SumOver(f, S) ==
    IF S = {} THEN 0
    ELSE LET k == CHOOSE x \in S : TRUE IN f[k] + SumOver(f, S \ {k})

-----------------------------------------------------------------------------
(* BacktestPortfolio *)

Symbols == {"A", "B"}

\* BacktestPortfolio.__init__; commission and slippage in units of 1/RateDen,
\* initial_capital in currency units
NewPortfolio(initial_capital, commission, slippage) ==
    [initial_capital |-> initial_capital * Money,
     cash            |-> initial_capital * Money,
     commission      |-> commission,
     slippage        |-> slippage,
     positions       |-> EmptyDict,
     current_prices  |-> EmptyDict,
     total_value     |-> initial_capital * Money,
     positions_value |-> 0]

\* a faulty update: the day's map replaces the known prices
UpdatePrices_Mut(p, date, prices) ==
    LET cp == prices
        pv == SumOver([s \in DOMAIN cp |-> Get(p.positions, s, 0) * cp[s] * Money],
                      DOMAIN cp)
    IN [p EXCEPT !.current_prices = cp,
                 !.positions_value = pv,
                 !.total_value = p.cash + pv]
\* BacktestPortfolio.update_prices; prices: symbol -> close in currency units
UpdatePrices(p, date, prices) ==
    LET cp == Update(p.current_prices, prices)
        pv == SumOver([s \in DOMAIN cp |-> Get(p.positions, s, 0) * cp[s] * Money],
                      DOMAIN cp)
    IN [p EXCEPT !.current_prices = cp,
                 !.positions_value = pv,
                 !.total_value = p.cash + pv]

\* a faulty price: the slippage is added on both sides
ExecutionPrice_Mut(p, side, price) == price * (RateDen + p.slippage)
\* execute_trade, "Appliquer le slippage": execution price in units of 1/RateDen
ExecutionPrice(p, side, price) ==
    IF side = "BUY" THEN price * (RateDen + p.slippage)
                    ELSE price * (RateDen - p.slippage)

\* trade_value = quantity * execution_price, in units of 1/RateDen
TradeValue(quantity, execution_price) == quantity * execution_price

\* commission_cost = trade_value * self.commission, in units of 1/Money
CommissionCost(p, trade_value) == trade_value * p.commission

\* total_cost = trade_value + commission_cost, in units of 1/Money
TotalCost(trade_value, commission_cost) == trade_value * RateDen + commission_cost

\* a faulty guard: any non-negative cash buys
BuyAffordable_Mut(p, total_cost) == p.cash >= 0
\* the BUY guard: if self.cash >= total_cost
BuyAffordable(p, total_cost) == p.cash >= total_cost

\* a faulty guard: any held quantity covers the sale
SellCovered_Mut(current_position, quantity) == current_position > 0
\* the SELL guard: if current_position >= quantity
SellCovered(current_position, quantity) == current_position >= quantity

\* a faulty branch: else instead of elif side == 'SELL'
IsSell_Mut(side) == side # "BUY"
\* the SELL branch: elif side == 'SELL'
IsSell(side) == side = "SELL"

\* a faulty credit: the commission of a SELL is not charged
SellProceeds_Mut(trade_value, commission_cost) == trade_value * RateDen
\* what a SELL adds to the cash: trade_value - commission_cost
SellProceeds(trade_value, commission_cost) == trade_value * RateDen - commission_cost

\* the Trade dataclass; pnl keeps its default None unless given
Trade(symbol, entry_date, exit_date, entry_price, exit_price, quantity, side, commission, reason) ==
    [symbol |-> symbol, entry_date |-> entry_date, exit_date |-> exit_date,
     entry_price |-> entry_price, exit_price |-> exit_price,
     quantity |-> quantity, side |-> side, pnl |-> None,
     commission |-> commission, reason |-> reason]

\* BacktestPortfolio.execute_trade: the portfolio after the call and the
\* returned Optional[Trade]
ExecuteTrade(p, symbol, side, quantity, price, date, reason) ==
    LET execution_price == ExecutionPrice(p, side, price)
        trade_value == TradeValue(quantity, execution_price)
        commission_cost == CommissionCost(p, trade_value)
        total_cost == TotalCost(trade_value, commission_cost)
        current_position == Get(p.positions, symbol, 0)
    IN  IF side = "BUY" /\ BuyAffordable(p, total_cost) THEN
            [portfolio |->
                [p EXCEPT !.cash = p.cash - total_cost,
                          !.positions = Update(p.positions,
                                [s \in {symbol} |-> current_position + quantity])],
             trade |-> Some(Trade(symbol, date, None, execution_price, None,
                                  quantity, side, commission_cost, reason))]
        ELSE IF IsSell(side) /\ SellCovered(current_position, quantity) THEN
            [portfolio |->
                [p EXCEPT !.cash = p.cash + SellProceeds(trade_value, commission_cost),
                          !.positions =
                              IF current_position - quantity = 0
                              THEN Del(p.positions, symbol)
                              ELSE Update(p.positions,
                                    [s \in {symbol} |-> current_position - quantity])],
             trade |-> Some(Trade(symbol, date, Some(date), execution_price,
                                  Some(execution_price), quantity, side,
                                  commission_cost, reason))]
        ELSE [portfolio |-> p, trade |-> None]

-----------------------------------------------------------------------------
(* Price series and the DataProvider *)

Window == 20            \* the momentum window of _simulate_trading_signals
SignalQuantity == 100   \* 'quantity': 100, the fixed size of every signal
MaxNow == 1             \* the clock, in seconds, stops advancing here
MaxRuns == 2            \* create_backtest calls
MaxThreads == 2         \* threads spawned by start_backtest
TailLen == 2            \* rows a long series has after its first Window rows

\* a row of the DataFrame: its index entry and its Close column
Row(date, close) == [date |-> date, Close |-> close]

\* symbol_data.index as a set
Dates(series) == {series[k].date : k \in 1..Len(series)}

\* symbol_data.index.get_loc(date): 0-based position of date in the index
GetLoc(series, date) == (CHOOSE k \in 1..Len(series) : series[k].date = date) - 1

\* symbol_data.loc[date, 'Close']
CloseAt(series, date) == series[GetLoc(series, date) + 1].Close

\* What one upstream query (yf.Ticker(symbol).history) can come back with:
\* rows that survive dropna, rows that are all dropped by dropna, an empty
\* frame, or an exception.
Fetched(rows) == [kind |-> "data", rows |-> rows]
AllNaN == [kind |-> "data", rows |-> <<>>]
EmptyFrame == [kind |-> "empty"]
FetchError == [kind |-> "error"]

\* short histories: one trading day
ShortSeries == { <<Row(1, 100)>> }
ShortUpstream == {Fetched(r) : r \in ShortSeries} \cup {EmptyFrame}

TailPrices == {90, 100, 110}
RECURSIVE Tails(_)
Tails(n) == IF n = 0 THEN {<<>>}
            ELSE LET shorter == Tails(n - 1)
                 IN shorter \cup {Append(t, c) : t \in {x \in shorter : Len(x) = n - 1},
                                                 c \in TailPrices}
\* long histories: Window rows closing at 100 on dates 1..Window, then a tail
LongRows(tail) == [k \in 1..(Window + Len(tail)) |->
                      IF k <= Window THEN Row(k, 100)
                                     ELSE Row(k, tail[k - Window])]
LongSeries == {LongRows(t) : t \in Tails(TailLen) \ {<<>>}}
LongUpstream == {Fetched(r) : r \in LongSeries} \cup {AllNaN, EmptyFrame, FetchError}

\* cache_key = f"{symbol}_{start_date}_{end_date}"
CacheKey(symbol, start_date, end_date) == <<symbol, start_date, end_date>>

\* DataProvider.get_historical_data after a cache miss, given what the
\* upstream query returns (lines 109-129): the cache after the call and the
\* returned Optional[DataFrame]
FetchAndStore(c, symbol, start_date, end_date, upstream) ==
    LET cache_key == CacheKey(symbol, start_date, end_date)
    IN  IF upstream.kind = "data"
            THEN [cache |-> Update(c, [k \in {cache_key} |-> upstream.rows]),
                  data |-> Some(upstream.rows)]
        ELSE [cache |-> c, data |-> None]

\* DataProvider.get_historical_data as one uninterrupted call
GetHistoricalData_Mut(c, symbol, start_date, end_date, upstream) ==
    LET cache_key == CacheKey(symbol, start_date, end_date)
    IN  IF cache_key \in DOMAIN c
            THEN [cache |-> c, data |-> Some(c[cache_key])]
        ELSE IF upstream.kind = "data"
            THEN [cache |-> c, data |-> Some(upstream.rows)]
        ELSE [cache |-> c, data |-> None]
GetHistoricalData(c, symbol, start_date, end_date, upstream) ==
    LET cache_key == CacheKey(symbol, start_date, end_date)
    IN  IF cache_key \in DOMAIN c
            THEN [cache |-> c, data |-> Some(c[cache_key])]
        ELSE FetchAndStore(c, symbol, start_date, end_date, upstream)

-----------------------------------------------------------------------------
(* BacktestEngine: signals, metrics *)

\* a rational number num/den; den = 0 is float('inf')
Rat(num, den) == <<num, den>>
Zero == Rat(0, 1)
Inf == Rat(1, 0)

RECURSIVE SumCloses(_, _, _)
\* recent_data['Close'] summed over rows from..to (1-based, inclusive)
SumCloses(series, from, to) ==
    IF from > to THEN 0 ELSE series[from].Close + SumCloses(series, from + 1, to)

\* the signal of one symbol on current_date: a sequence of zero or one signal
SymbolSignal_Mut(symbol, series, current_date) ==
    IF current_date \notin Dates(series) THEN <<>>
    ELSE LET end_idx == GetLoc(series, current_date)
         IN  IF end_idx < Window - 1 THEN <<>>
             ELSE LET current_price == series[end_idx + 1].Close
                      total == SumCloses(series, end_idx - (Window - 1) + 1, end_idx + 1)
                  IN  IF current_price * Window * 100 > total * 102 THEN
                          <<[symbol |-> symbol, side |-> "BUY",
                             quantity |-> SignalQuantity, price |-> current_price,
                             reason |-> "Momentum positif"]>>
                      ELSE IF current_price * Window * 100 < total * 98 THEN
                          <<[symbol |-> symbol, side |-> "SELL",
                             quantity |-> SignalQuantity, price |-> current_price,
                             reason |-> "Momentum negatif"]>>
                      ELSE <<>>
SymbolSignal(symbol, series, current_date) ==
    IF current_date \notin Dates(series) THEN <<>>
    ELSE LET end_idx == GetLoc(series, current_date)
         IN  IF end_idx < Window THEN <<>>
             ELSE LET current_price == series[end_idx + 1].Close
                      \* avg_price = total / Window
                      total == SumCloses(series, end_idx - (Window - 1) + 1, end_idx + 1)
                  IN  IF current_price * Window * 100 > total * 102 THEN
                          <<[symbol |-> symbol, side |-> "BUY",
                             quantity |-> SignalQuantity, price |-> current_price,
                             reason |-> "Momentum positif"]>>
                      ELSE IF current_price * Window * 100 < total * 98 THEN
                          <<[symbol |-> symbol, side |-> "SELL",
                             quantity |-> SignalQuantity, price |-> current_price,
                             reason |-> "Momentum negatif"]>>
                      ELSE <<>>

RECURSIVE SignalsOf(_, _, _)
\* the loop "for symbol, symbol_data in data.items()"; order is the
\* insertion order of the data dict
SignalsOf(order, data, current_date) ==
    IF order = <<>> THEN <<>>
    ELSE SymbolSignal(Head(order), data[Head(order)], current_date)
         \o SignalsOf(Tail(order), data, current_date)

\* BacktestEngine._simulate_trading_signals
SimulateTradingSignals_Mut(order, data, current_date, day_index) ==
    IF day_index < Window THEN <<>> ELSE SignalsOf(order, data, current_date + 1)
SimulateTradingSignals(order, data, current_date, day_index) ==
    IF day_index < Window THEN <<>> ELSE SignalsOf(order, data, current_date)

RECURSIVE ExecuteSignals(_, _, _)
\* the loop "for signal in signals": the portfolio after all signals and the
\* trades to append to result.trades
ExecuteSignals(p, signals, date) ==
    IF signals = <<>> THEN [portfolio |-> p, trades |-> <<>>]
    ELSE LET signal == Head(signals)
             r == ExecuteTrade(p, signal.symbol, signal.side, signal.quantity,
                               signal.price, date, signal.reason)
             rest == ExecuteSignals(r.portfolio, Tail(signals), date)
         IN [portfolio |-> rest.portfolio,
             trades |-> (IF r.trade # None THEN <<TheValue(r.trade)>> ELSE <<>>)
                        \o rest.trades]

\* current_date.isoformat()
IsoFormat(date) == [iso |-> date]

\* the equity_point dict of _run_backtest
EquityPoint(date, p) ==
    [date |-> IsoFormat(date), equity |-> p.total_value, cash |-> p.cash,
     positions_value |-> p.positions_value]

RECURSIVE SortedSeq(_)
\* sorted(list(all_dates))
SortedSeq(S) ==
    IF S = {} THEN <<>>
    ELSE LET m == CHOOSE x \in S : \A y \in S : x <= y
         IN <<m>> \o SortedSeq(S \ {m})

\* all_dates: the union of the indexes of the loaded series
AllDates(data) == UNION {Dates(data[s]) : s \in DOMAIN data}

\* NaN (the standard deviation of a single return) and a finite float that
\* has no exact rational form (a fractional power, a square root): the model
\* keeps such a field in the record without computing its digits
NaN == Rat(0, 0)
NotExact == Rat(0, -1)

\* a/b <= c/d for naturals a, c and positive b, d, by continued fractions
\* (the cross products do not fit the integer width)
RECURSIVE RatLeq(_, _, _, _)
RatLeq(a, b, c, d) ==
    IF a \div b # c \div d THEN a \div b < c \div d
    ELSE IF a % b = 0 THEN TRUE
    ELSE IF c % d = 0 THEN FALSE
    ELSE RatLeq(d, c % d, b, a % b)

\* equity_df['equity'].cummax() at row k
Peak(curve, k) ==
    CHOOSE p \in {curve[j].equity : j \in 1..k} :
        \A j \in 1..k : curve[j].equity <= p

\* equity_df['drawdown'].min()
MaxDrawdown(curve) ==
    LET k == CHOOSE i \in 1..Len(curve) :
                 \A j \in 1..Len(curve) :
                     RatLeq(curve[i].equity, Peak(curve, i),
                            curve[j].equity, Peak(curve, j))
    IN Rat(curve[k].equity - Peak(curve, k), Peak(curve, k))

\* equity_df['returns'].std() * sqrt(252): pct_change().fillna(0) of a flat
\* curve is all zeros
Volatility(curve) ==
    IF Len(curve) = 1 THEN NaN
    ELSE IF \A j \in 1..Len(curve) : curve[j].equity = curve[1].equity THEN Zero
    ELSE NotExact

\* (1 + total_return) ** (252 / days) - 1
AnnualReturn(total_return, days) ==
    IF total_return[1] = 0 THEN Zero
    ELSE IF days = 252 THEN total_return
    ELSE NotExact

\* "(annual_return - risk_free_rate) / volatility if volatility > 0 else 0"
SharpeRatio(annual_return, volatility) ==
    IF volatility = NotExact THEN NotExact ELSE Zero

\* "total_wins / total_losses if total_losses > 0 else float('inf')"
ProfitFactor_Mut(total_wins, total_losses) ==
    IF total_losses > 0 THEN Rat(total_wins, total_losses) ELSE Zero
ProfitFactor(total_wins, total_losses) ==
    IF total_losses > 0 THEN Rat(total_wins, total_losses) ELSE Inf

\* BacktestMetrics(0, 0, ..., 0), the record of the except branch
ZeroMetrics_Mut ==
    [total_return |-> Zero, annual_return |-> Zero, volatility |-> Zero,
     sharpe_ratio |-> Zero, max_drawdown |-> Zero, win_rate |-> Zero,
     profit_factor |-> Inf,
     total_trades |-> 0, winning_trades |-> 0, losing_trades |-> 0,
     avg_win |-> Zero, avg_loss |-> Zero, largest_win |-> 0, largest_loss |-> 0,
     benchmark_return |-> Zero, alpha |-> Zero, beta |-> Zero]
ZeroMetrics ==
    [total_return |-> Zero, annual_return |-> Zero, volatility |-> Zero,
     sharpe_ratio |-> Zero, max_drawdown |-> Zero, win_rate |-> Zero,
     profit_factor |-> Zero,
     total_trades |-> 0, winning_trades |-> 0, losing_trades |-> 0,
     avg_win |-> Zero, avg_loss |-> Zero, largest_win |-> 0, largest_loss |-> 0,
     benchmark_return |-> Zero, alpha |-> Zero, beta |-> Zero]

\* "t.pnl and t.pnl > 0" / "t.pnl and t.pnl < 0"
IsWinning(t) == t.pnl # None /\ TheValue(t.pnl) > 0
IsLosing(t) == t.pnl # None /\ TheValue(t.pnl) < 0

\* the statements of the try block that raise: the explicit raise on an empty
\* equity curve, and iloc[0] on a benchmark series that has no row
MetricsRaise(result, config, data) ==
    \/ result.equity_curve = <<>>
    \/ /\ config.benchmark \in DOMAIN data
       /\ data[config.benchmark] = <<>>

\* BacktestEngine._calculate_metrics
CalculateMetrics_Mut(result, config, data) == ZeroMetrics
CalculateMetrics(result, config, data) ==
    IF MetricsRaise(result, config, data) THEN ZeroMetrics
    ELSE
    LET curve == result.equity_curve
        final == curve[Len(curve)].equity
        initial == config.initial_capital * Money
        total_return == Rat(final - initial, initial)
        annual_return == AnnualReturn(total_return, Len(curve))
        volatility == Volatility(curve)
        idx == 1..Len(result.trades)
        pnl == [k \in idx |-> IF result.trades[k].pnl = None THEN 0
                              ELSE TheValue(result.trades[k].pnl)]
        completed_trades == {k \in idx : result.trades[k].exit_date # None}
        winning_trades == {k \in completed_trades : IsWinning(result.trades[k])}
        losing_trades == {k \in completed_trades : IsLosing(result.trades[k])}
        win_rate == IF completed_trades # {}
                    THEN Rat(Cardinality(winning_trades), Cardinality(completed_trades))
                    ELSE Zero
        total_wins == SumOver(pnl, winning_trades)
        losses == SumOver(pnl, losing_trades)
        total_losses == IF losses < 0 THEN -losses ELSE losses
        has_benchmark == config.benchmark \in DOMAIN data
        benchmark_return ==
            IF has_benchmark
            THEN LET b == data[config.benchmark]
                 IN Rat(b[Len(b)].Close - b[1].Close, b[1].Close)
            ELSE Zero
    IN [total_return |-> total_return,
        annual_return |-> annual_return,
        volatility |-> volatility,
        sharpe_ratio |-> SharpeRatio(annual_return, volatility),
        max_drawdown |-> MaxDrawdown(curve),
        win_rate |-> win_rate,
        profit_factor |-> ProfitFactor(total_wins, total_losses),
        total_trades |-> Cardinality(completed_trades),
        winning_trades |-> Cardinality(winning_trades),
        losing_trades |-> Cardinality(losing_trades),
        avg_win |-> IF winning_trades # {}
                    THEN Rat(total_wins, Cardinality(winning_trades)) ELSE Zero,
        avg_loss |-> IF losing_trades # {}
                     THEN Rat(losses, Cardinality(losing_trades)) ELSE Zero,
        largest_win |-> IF winning_trades # {}
                        THEN CHOOSE w \in {pnl[k] : k \in winning_trades} :
                                 \A k \in winning_trades : pnl[k] <= w
                        ELSE 0,
        largest_loss |-> IF losing_trades # {}
                         THEN CHOOSE l \in {pnl[k] : k \in losing_trades} :
                                  \A k \in losing_trades : l <= pnl[k]
                         ELSE 0,
        benchmark_return |-> benchmark_return,
        alpha |-> IF has_benchmark
                  THEN Rat(total_return[1] * benchmark_return[2]
                             - benchmark_return[1] * total_return[2],
                           total_return[2] * benchmark_return[2])
                  ELSE Zero,
        beta |-> IF has_benchmark THEN Rat(1, 1) ELSE Zero]

-----------------------------------------------------------------------------
(* BacktestEngine: the registry and the _run_backtest thread *)

\* BacktestConfig (name, description, trading_config and risk_config are
\* carried along untouched and left out)
Config(symbols, initial_capital, benchmark, commission, slippage) ==
    [symbols |-> symbols, start_date |-> "start", end_date |-> "end",
     initial_capital |-> initial_capital, benchmark |-> benchmark,
     commission |-> commission, slippage |-> slippage]

\* configurations of the registry scenarios
EngineConfigs == {Config(<<"A">>, 100000, "A", 1, 1)}

\* configurations of the single-run scenarios
RunConfigs == {Config(syms, cap, bench, r, r) :
                  syms \in {<<"A">>, <<"A", "B">>}, cap \in {5000, 100000},
                  bench \in {"A", "SPY"}, r \in {0, 1}}

\* backtest_id = f"backtest_{int(datetime.now().timestamp())}", the clock
\* counting seconds
BacktestId(t) == t

\* the ids a caller may pass; the last one is never issued
Ids == 0..(BacktestId(MaxNow) + 1)

\* the BacktestResult built by create_backtest
NewResult(backtest_id, config, created_at) ==
    [id |-> backtest_id, config |-> config, status |-> "pending",
     metrics |-> None, trades |-> <<>>, equity_curve |-> <<>>,
     created_at |-> created_at, started_at |-> None, completed_at |-> None,
     error_message |-> None]

\* the frame of a thread entering _run_backtest(backtest_id); seen is the
\* object start_backtest examined before spawning the thread, stored the
\* cache keys whose entry this thread wrote (both kept for the properties)
NewThread(backtest_id, seen) ==
    [backtest_id |-> backtest_id, seen |-> seen, pc |-> "lookup", result |-> 0,
     symbols_left |-> <<>>, order |-> <<>>, data |-> EmptyDict,
     portfolio |-> None, trading_dates |-> <<>>, i |-> 0, error |-> None,
     stored |-> {}]

NoCall == [op |-> "none"]

InitEngine ==
    /\ now = 0
    /\ results = <<>>
    /\ active_backtests = EmptyDict
    /\ completed_backtests = EmptyDict
    /\ executor_threads = EmptyDict
    /\ cache = EmptyDict
    /\ threads = <<>>
    /\ returned = NoCall

\* time passes
Tick ==
    /\ now < MaxNow
    /\ now' = now + 1
    /\ returned' = NoCall
    /\ UNCHANGED <<results, active_backtests, completed_backtests,
                   executor_threads, cache, threads>>

\* BacktestEngine.create_backtest
CreateBacktest(config, limit) ==
    /\ Len(results) < limit
    /\ LET backtest_id == BacktestId(now)
           ref == Len(results) + 1
       IN /\ results' = Append(results, NewResult(backtest_id, config, now))
          /\ active_backtests' =
                Update(active_backtests, [k \in {backtest_id} |-> ref])
          /\ returned' = [op |-> "create_backtest", value |-> backtest_id, ref |-> ref]
    /\ UNCHANGED <<now, completed_backtests, executor_threads, cache, threads>>

\* BacktestEngine.start_backtest
StartBacktest(backtest_id, limit) ==
    IF backtest_id \notin DOMAIN active_backtests
           \/ results[active_backtests[backtest_id]].status # "pending"
    THEN /\ returned' = [op |-> "start_backtest", id |-> backtest_id, value |-> FALSE]
         /\ UNCHANGED <<now, results, active_backtests, completed_backtests,
                        executor_threads, cache, threads>>
    ELSE /\ Len(threads) < limit
         /\ threads' = Append(threads,
                              NewThread(backtest_id, active_backtests[backtest_id]))
         /\ executor_threads' =
                Update(executor_threads, [k \in {backtest_id} |-> Len(threads) + 1])
         /\ returned' = [op |-> "start_backtest", id |-> backtest_id, value |-> TRUE]
         /\ UNCHANGED <<now, results, active_backtests, completed_backtests, cache>>

\* BacktestEngine.get_backtest_results
GetBacktestResults(backtest_id) ==
    /\ returned' = [op |-> "get_backtest_results", id |-> backtest_id,
                    value |-> IF backtest_id \in DOMAIN completed_backtests
                              THEN Some(completed_backtests[backtest_id])
                              ELSE None]
    /\ UNCHANGED <<now, results, active_backtests, completed_backtests,
                   executor_threads, cache, threads>>

\* the dict get_backtest_status returns for a run
Summary(result) ==
    [id |-> result.id, status |-> result.status,
     created_at |-> result.created_at, started_at |-> result.started_at,
     completed_at |-> result.completed_at,
     error_message |-> result.error_message,
     total_trades |-> Len(result.trades),
     equity_points |-> Len(result.equity_curve)]

\* BacktestEngine.get_backtest_status, lines 432-437 up to the membership
\* tests: a request thread that finds the id in active_backtests has still
\* to read the entry (line 435); completed_backtests never loses an entry,
\* so the test and the read of lines 436-437 are one step
StatusCheck(backtest_id) ==
    /\ request = NoCall
    /\ IF backtest_id \in DOMAIN active_backtests
       THEN /\ request' = [op |-> "get_backtest_status", id |-> backtest_id]
            /\ returned' = NoCall
       ELSE /\ request' = NoCall
            /\ returned' = [op |-> "get_backtest_status", id |-> backtest_id,
                            raised |-> FALSE,
                            value |-> IF backtest_id \in DOMAIN completed_backtests
                                      THEN Some(Summary(results[completed_backtests[backtest_id]]))
                                      ELSE None]
    /\ UNCHANGED <<now, results, active_backtests, completed_backtests,
                   executor_threads, cache, threads>>

\* line 435, result = self.active_backtests[backtest_id] (KeyError when the
\* entry is gone), and lines 439-452
StatusGet ==
    /\ request # NoCall
    /\ request' = NoCall
    /\ returned' =
         IF request.id \in DOMAIN active_backtests
         THEN [op |-> "get_backtest_status", id |-> request.id, raised |-> FALSE,
               value |-> Some(Summary(results[active_backtests[request.id]]))]
         ELSE [op |-> "get_backtest_status", id |-> request.id, raised |-> TRUE,
               value |-> None]
    /\ UNCHANGED <<now, results, active_backtests, completed_backtests,
                   executor_threads, cache, threads>>

\* the dict list_backtests builds for one entry of a map (of: which map, ref:
\* the object, kept for the properties)
Entry(ref, of) ==
    [id |-> results[ref].id, status |-> results[ref].status,
     created_at |-> results[ref].created_at, of |-> of, ref |-> ref]

\* x comes before y in sorted(all_backtests, key=created_at, reverse=True):
\* later created_at first; the sort is stable, so entries with equal keys
\* stay as appended, the active map's before the completed map's (within one
\* map: by reference)
Before(x, y) ==
    \/ x.created_at > y.created_at
    \/ /\ x.created_at = y.created_at
       /\ \/ (x.of = "active" /\ y.of = "completed")
          \/ (x.of = y.of /\ x.ref < y.ref)

RECURSIVE SortedEntries(_)
SortedEntries(S) ==
    IF S = {} THEN <<>>
    ELSE LET first == CHOOSE x \in S : \A y \in S \ {x} : Before(x, y)
         IN <<first>> \o SortedEntries(S \ {first})

\* BacktestEngine.list_backtests, the two maps read in one step
ListBacktests ==
    /\ returned' =
         [op |-> "list_backtests",
          value |-> SortedEntries(
              {Entry(active_backtests[k], "active") : k \in DOMAIN active_backtests}
              \cup {Entry(completed_backtests[k], "completed") :
                        k \in DOMAIN completed_backtests})]
    /\ UNCHANGED <<now, results, active_backtests, completed_backtests,
                   executor_threads, cache, threads>>

ThreadIds == 1..Len(threads)

\* the thread moves on to pc
Goto(t, pc) == [threads EXCEPT ![t].pc = pc]

\* the thread ends, normally ("done") or on an uncaught exception
\* ("crashed"), and its locals are gone
Exit(t, pc) == [threads EXCEPT ![t] =
    [NewThread(threads[t].backtest_id, threads[t].seen) EXCEPT
        !.pc = pc, !.result = threads[t].result, !.stored = threads[t].stored]]

\* lines 211-225, local to the thread: the data check, the portfolio and
\* the trading dates
Prepare_Mut(frame, config) ==
    LET trading_dates == SortedSeq(AllDates(frame.data))
    IN  [frame EXCEPT
            !.pc = IF trading_dates = <<>> THEN "metrics" ELSE "day",
            !.portfolio = Some(NewPortfolio(config.initial_capital,
                                    config.commission, config.slippage)),
            !.trading_dates = trading_dates,
            !.i = 0]
Prepare(frame, config) ==
    LET trading_dates == SortedSeq(AllDates(frame.data))
    IN  IF DOMAIN frame.data = {}
        THEN [frame EXCEPT !.pc = "except_status",
                           !.error = Some("Aucune donnee historique disponible")]
        ELSE [frame EXCEPT
                !.pc = IF trading_dates = <<>> THEN "metrics" ELSE "day",
                !.portfolio = Some(NewPortfolio(config.initial_capital,
                                        config.commission, config.slippage)),
                !.trading_dates = trading_dates,
                !.i = 0]

\* line 196: result = self.active_backtests[backtest_id], outside the try
RunLookup(t) ==
    /\ threads[t].pc = "lookup"
    /\ threads' = IF threads[t].backtest_id \in DOMAIN active_backtests
                  THEN [threads EXCEPT ![t].pc = "set_running",
                            ![t].result = active_backtests[threads[t].backtest_id]]
                  ELSE Exit(t, "crashed")
    /\ returned' = NoCall
    /\ UNCHANGED <<now, results, active_backtests, completed_backtests,
                   executor_threads, cache>>

\* line 200: result.status = BacktestStatus.RUNNING
RunSetRunning(t) ==
    /\ threads[t].pc = "set_running"
    /\ results' = [results EXCEPT ![threads[t].result].status = "running"]
    /\ threads' = Goto(t, "set_started")
    /\ returned' = NoCall
    /\ UNCHANGED <<now, active_backtests, completed_backtests,
                   executor_threads, cache>>

\* line 201: result.started_at = datetime.now()
RunSetStarted(t) ==
    /\ threads[t].pc = "set_started"
    /\ results' = [results EXCEPT ![threads[t].result].started_at = Some(now)]
    /\ LET config == results[threads[t].result].config
           frame == [threads[t] EXCEPT !.pc = "load", !.symbols_left = config.symbols]
       IN threads' = [threads EXCEPT ![t] =
             IF config.symbols = <<>> THEN Prepare(frame, config) ELSE frame]
    /\ returned' = NoCall
    /\ UNCHANGED <<now, active_backtests, completed_backtests,
                   executor_threads, cache>>

\* one iteration of the loop of get_multiple_symbols
Load_Mut(frame, symbol, fetched) ==
    [frame EXCEPT
        !.symbols_left = Tail(@),
        !.order = IF fetched # None /\ symbol \notin DOMAIN frame.data
                  THEN Append(@, symbol) ELSE @,
        !.data = IF fetched # None
                 THEN Update(@, [k \in {symbol} |-> <<>>])
                 ELSE @]
Load(frame, symbol, fetched) ==
    [frame EXCEPT
        !.symbols_left = Tail(@),
        !.order = IF fetched # None /\ symbol \notin DOMAIN frame.data
                  THEN Append(@, symbol) ELSE @,
        !.data = IF fetched # None
                 THEN Update(@, [k \in {symbol} |-> TheValue(fetched)])
                 ELSE @]

\* lines 207-209, one call of get_historical_data, up to the cache lookup of
\* lines 106-107: on a hit the cached series is returned; after the last
\* symbol the thread goes on through lines 211-225
RunLoad(t) ==
    /\ threads[t].pc = "load"
    /\ LET config == results[threads[t].result].config
           symbol == Head(threads[t].symbols_left)
           cache_key == CacheKey(symbol, config.start_date, config.end_date)
           frame == Load(threads[t], symbol, Some(cache[cache_key]))
       IN threads' = [threads EXCEPT ![t] =
             IF cache_key \notin DOMAIN cache THEN [@ EXCEPT !.pc = "fetch"]
             ELSE IF frame.symbols_left = <<>> THEN Prepare(frame, config)
             ELSE frame]
    /\ returned' = NoCall
    /\ UNCHANGED <<now, results, active_backtests, completed_backtests,
                   executor_threads, cache>>

\* lines 109-129 of that call after a miss: the upstream query, and the store
\* into the cache, whatever another thread has stored under the key meanwhile
RunFetch(t, Upstream) ==
    /\ threads[t].pc = "fetch"
    /\ \E upstream \in Upstream :
         LET config == results[threads[t].result].config
             symbol == Head(threads[t].symbols_left)
             cache_key == CacheKey(symbol, config.start_date, config.end_date)
             r == FetchAndStore(cache, symbol, config.start_date,
                                config.end_date, upstream)
             loaded == Load(threads[t], symbol, r.data)
             frame == [loaded EXCEPT
                          !.pc = "load",
                          !.stored = IF r.data # None THEN @ \cup {cache_key} ELSE @]
         IN /\ cache' = r.cache
            /\ threads' = [threads EXCEPT ![t] =
                  IF frame.symbols_left = <<>> THEN Prepare(frame, config) ELSE frame]
    /\ returned' = NoCall
    /\ UNCHANGED <<now, results, active_backtests, completed_backtests,
                   executor_threads>>

\* current_prices of lines 229-232
CurrentPrices(data, current_date) ==
    [s \in {x \in DOMAIN data : current_date \in Dates(data[x])} |->
        CloseAt(data[s], current_date)]

\* lines 227-261: one iteration of the simulation loop
RunDay(t) ==
    /\ threads[t].pc = "day"
    /\ LET th == threads[t]
           current_date == th.trading_dates[th.i + 1]
           p1 == UpdatePrices(TheValue(th.portfolio), current_date,
                              CurrentPrices(th.data, current_date))
           signals == SimulateTradingSignals(th.order, th.data, current_date, th.i)
           r == ExecuteSignals(p1, signals, current_date)
       IN /\ results' = [results EXCEPT
                ![th.result].trades = @ \o r.trades,
                ![th.result].equity_curve = Append(@, EquityPoint(current_date, r.portfolio))]
          /\ threads' = [threads EXCEPT
                ![t].portfolio = Some(r.portfolio),
                ![t].i = th.i + 1,
                ![t].pc = IF th.i + 1 = Len(th.trading_dates) THEN "metrics" ELSE "day"]
    /\ returned' = NoCall
    /\ UNCHANGED <<now, active_backtests, completed_backtests,
                   executor_threads, cache>>

\* str(e) of an exception raised by a statement of the loop body
LoopError == "exception in the simulation loop"

\* lines 227-261 when a statement of the loop body raises (an index lookup on
\* an irregular frame, an allocation): the trades executed so far this day
\* are in result.trades, the day's equity point is not recorded, and control
\* goes to the except branch
RunDayRaise(t) ==
    /\ threads[t].pc = "day"
    /\ LET th == threads[t]
           current_date == th.trading_dates[th.i + 1]
           p1 == UpdatePrices(TheValue(th.portfolio), current_date,
                              CurrentPrices(th.data, current_date))
           signals == SimulateTradingSignals(th.order, th.data, current_date, th.i)
           r == ExecuteSignals(p1, signals, current_date)
       IN \E n \in 0..Len(r.trades) :
            /\ results' = [results EXCEPT
                   ![th.result].trades = @ \o SubSeq(r.trades, 1, n)]
            /\ threads' = [threads EXCEPT ![t].pc = "except_status",
                                          ![t].error = Some(LoopError)]
    /\ returned' = NoCall
    /\ UNCHANGED <<now, active_backtests, completed_backtests,
                   executor_threads, cache>>

\* line 270: result.metrics = self._calculate_metrics(result, config, data)
RunMetrics(t) ==
    /\ threads[t].pc = "metrics"
    /\ LET res == results[threads[t].result]
       IN results' = [results EXCEPT ![threads[t].result].metrics =
                         Some(CalculateMetrics(res, res.config, threads[t].data))]
    /\ threads' = Goto(t, "set_completed")
    /\ returned' = NoCall
    /\ UNCHANGED <<now, active_backtests, completed_backtests,
                   executor_threads, cache>>

\* line 273: result.status = BacktestStatus.COMPLETED
RunSetCompleted(t) ==
    /\ threads[t].pc = "set_completed"
    /\ results' = [results EXCEPT ![threads[t].result].status = "completed"]
    /\ threads' = Goto(t, "set_completed_at")
    /\ returned' = NoCall
    /\ UNCHANGED <<now, active_backtests, completed_backtests,
                   executor_threads, cache>>

\* line 274: result.completed_at = datetime.now()
RunSetCompletedAt(t) ==
    /\ threads[t].pc = "set_completed_at"
    /\ results' = [results EXCEPT ![threads[t].result].completed_at = Some(now)]
    /\ threads' = Goto(t, "insert")
    /\ returned' = NoCall
    /\ UNCHANGED <<now, active_backtests, completed_backtests,
                   executor_threads, cache>>

\* line 277: self.completed_backtests[backtest_id] = result
RunInsert(t) ==
    /\ threads[t].pc = "insert"
    /\ completed_backtests' = Update(completed_backtests,
            [k \in {threads[t].backtest_id} |-> threads[t].result])
    /\ threads' = Goto(t, "delete")
    /\ returned' = NoCall
    /\ UNCHANGED <<now, results, active_backtests, executor_threads, cache>>

\* line 278: del self.active_backtests[backtest_id]; a missing key raises
\* KeyError inside the try
RunDelete(t) ==
    /\ threads[t].pc = "delete"
    /\ IF threads[t].backtest_id \in DOMAIN active_backtests
       THEN /\ active_backtests' = Del(active_backtests, threads[t].backtest_id)
            /\ threads' = Goto(t, "finally")
       ELSE /\ active_backtests' = active_backtests
            /\ threads' = [threads EXCEPT ![t].pc = "except_status",
                                          ![t].error = Some("KeyError")]
    /\ returned' = NoCall
    /\ UNCHANGED <<now, results, completed_backtests, executor_threads, cache>>

\* line 284: result.status = BacktestStatus.FAILED
RunExceptStatus(t) ==
    /\ threads[t].pc = "except_status"
    /\ results' = [results EXCEPT ![threads[t].result].status = "failed"]
    /\ threads' = Goto(t, "except_message")
    /\ returned' = NoCall
    /\ UNCHANGED <<now, active_backtests, completed_backtests,
                   executor_threads, cache>>

\* line 285: result.error_message = str(e)
RunExceptMessage_Mut(t) ==
    /\ threads[t].pc = "except_message"
    /\ results' = [results EXCEPT ![threads[t].result].error_message = threads[t].error,
                                  ![threads[t].result].trades = <<>>,
                                  ![threads[t].result].equity_curve = <<>>]
    /\ threads' = Goto(t, "except_completed_at")
    /\ returned' = NoCall
    /\ UNCHANGED <<now, active_backtests, completed_backtests,
                   executor_threads, cache>>
RunExceptMessage(t) ==
    /\ threads[t].pc = "except_message"
    /\ results' = [results EXCEPT ![threads[t].result].error_message = threads[t].error]
    /\ threads' = Goto(t, "except_completed_at")
    /\ returned' = NoCall
    /\ UNCHANGED <<now, active_backtests, completed_backtests,
                   executor_threads, cache>>

\* line 286: result.completed_at = datetime.now()
RunExceptCompletedAt(t) ==
    /\ threads[t].pc = "except_completed_at"
    /\ results' = [results EXCEPT ![threads[t].result].completed_at = Some(now)]
    /\ threads' = Goto(t, "finally")
    /\ returned' = NoCall
    /\ UNCHANGED <<now, active_backtests, completed_backtests,
                   executor_threads, cache>>

\* line 292: if backtest_id in self.executor_threads
RunFinallyCheck(t) ==
    /\ threads[t].pc = "finally"
    /\ threads' = IF threads[t].backtest_id \in DOMAIN executor_threads
                  THEN Goto(t, "finally_del") ELSE Exit(t, "done")
    /\ returned' = NoCall
    /\ UNCHANGED <<now, results, active_backtests, completed_backtests,
                   executor_threads, cache>>

\* line 293: del self.executor_threads[backtest_id]
RunFinallyDel(t) ==
    /\ threads[t].pc = "finally_del"
    /\ IF threads[t].backtest_id \in DOMAIN executor_threads
       THEN /\ executor_threads' = Del(executor_threads, threads[t].backtest_id)
            /\ threads' = Exit(t, "done")
       ELSE /\ executor_threads' = executor_threads
            /\ threads' = Exit(t, "crashed")
    /\ returned' = NoCall
    /\ UNCHANGED <<now, results, active_backtests, completed_backtests, cache>>

-----------------------------------------------------------------------------
(* AutomationManager: the tasks, the control calls and the worker thread *)

\* one clock tick is the 30 seconds of stop_event.wait(30)
WaitTicks == 1
\* timedelta(minutes=1), the delay of a ONCE task that has never run
OnceDelay == 2
\* timedelta(minutes=interval_minutes) of the CUSTOM tasks, whose
\* schedule_config sets interval_minutes to 1
CustomInterval == 2

MaxTicks == 3       \* the clock stops after MaxTicks ticks
MaxWorkers == 2     \* threads start_automation may spawn
MaxTasks == 1       \* tasks loaded from tasks.json

\* AutomationTask._calculate_next_run at time t, for the schedule types
\* ONCE and CUSTOM: the new value of next_run
CalculateNextRun(task, t) ==
    IF task.schedule_type = "once"
    THEN IF task.last_run = None THEN Some(t + OnceDelay) ELSE None
    ELSE Some(t + CustomInterval)

\* an AutomationTask that has never run, after __post_init__ at time t
NewTask(schedule_type, enabled, t) ==
    LET task == [schedule_type |-> schedule_type, enabled |-> enabled,
                 last_run |-> None, next_run |-> None,
                 run_count |-> 0, success_count |-> 0, error_count |-> 0]
    IN [task EXCEPT !.next_run = CalculateNextRun(task, t)]

\* AutomationManager.__init__ before load_tasks; a callback is TRUE when a
\* callable has been assigned to it
NewManager ==
    [status |-> "stopped", stop_event |-> FALSE, worker_thread |-> None,
     on_analysis_complete |-> FALSE, on_error |-> FALSE]

\* the frame of a thread entering _automation_worker
NewWorker == [pc |-> "test", todo |-> <<>>, check_now |-> 0, wait_start |-> 0]

\* no AutomationManager is exercised
IdleAutomation ==
    /\ manager = NewManager
    /\ tasks = <<>>
    /\ workers = <<>>

\* AutomationManager.__init__: load_tasks builds the tasks of tasks.json
InitAutomation ==
    /\ manager = NewManager
    /\ \E loaded \in [1..MaxTasks -> {"once", "custom"} \X BOOLEAN] :
         tasks = [id \in 1..MaxTasks |-> NewTask(loaded[id][1], loaded[id][2], 0)]
    /\ workers = <<>>

\* time passes
ClockTick ==
    /\ now < MaxTicks
    /\ now' = now + 1
    /\ UNCHANGED <<manager, tasks, workers, request>>

\* a client assigns a callable to automation_manager.on_analysis_complete
SetOnAnalysisComplete ==
    /\ request = NoCall
    /\ ~manager.on_analysis_complete
    /\ manager' = [manager EXCEPT !.on_analysis_complete = TRUE]
    /\ UNCHANGED <<now, tasks, workers, request>>

\* a client assigns a callable to automation_manager.on_error
SetOnError ==
    /\ request = NoCall
    /\ ~manager.on_error
    /\ manager' = [manager EXCEPT !.on_error = TRUE]
    /\ UNCHANGED <<now, tasks, workers, request>>

\* AutomationManager.start_automation
StartAutomation ==
    /\ request = NoCall
    /\ IF manager.status = "running"
       THEN UNCHANGED <<manager, workers>>
       ELSE /\ Len(workers) < MaxWorkers
            /\ manager' = [manager EXCEPT !.status = "running",
                                          !.stop_event = FALSE,
                                          !.worker_thread = Some(Len(workers) + 1)]
            /\ workers' = Append(workers, NewWorker)
    /\ UNCHANGED <<now, tasks, request>>

\* AutomationManager.stop_automation up to the join of line 263
StopAutomation ==
    /\ request = NoCall
    /\ IF manager.status # "running"
       THEN UNCHANGED <<manager, request>>
       ELSE /\ manager' = [manager EXCEPT !.status = "stopped", !.stop_event = TRUE]
            /\ request' = IF manager.worker_thread # None
                          THEN [op |-> "stop_automation"] ELSE NoCall
    /\ UNCHANGED <<now, tasks, workers>>

\* the worker has ended
WorkerEnded(w) == workers[w].pc \in {"done", "crashed"}
\* the worker is inside a callback, for a time the callback decides
InCallback(w) == workers[w].pc \in {"callback", "on_error", "worker_on_error"}

\* self.worker_thread.join(timeout=5) returns: the thread has ended, or the
\* five seconds have passed while it is inside a callback
JoinReturn ==
    /\ request = [op |-> "stop_automation"]
    /\ LET w == TheValue(manager.worker_thread) IN WorkerEnded(w) \/ InCallback(w)
    /\ request' = NoCall
    /\ UNCHANGED <<now, manager, tasks, workers>>

\* AutomationManager.pause_automation
PauseAutomation ==
    /\ request = NoCall
    /\ manager' = IF manager.status = "running"
                  THEN [manager EXCEPT !.status = "paused"] ELSE manager
    /\ UNCHANGED <<now, tasks, workers, request>>

\* AutomationManager.resume_automation
ResumeAutomation ==
    /\ request = NoCall
    /\ manager' = IF manager.status = "paused"
                  THEN [manager EXCEPT !.status = "running"] ELSE manager
    /\ UNCHANGED <<now, tasks, workers, request>>

WorkerIds == 1..Len(workers)

\* line 283: while not self.stop_event.is_set()
WorkerTest(w) ==
    /\ workers[w].pc = "test"
    /\ workers' = [workers EXCEPT ![w].pc = IF manager.stop_event THEN "done" ELSE "status"]
    /\ UNCHANGED <<now, manager, tasks, request>>

\* line 285, and lines 302-304 when the status is RUNNING: now is read and
\* the loop over self.tasks.values() starts; otherwise the wait of line 289
WorkerStatus(w) ==
    /\ workers[w].pc = "status"
    /\ workers' = [workers EXCEPT ![w] =
          IF manager.status = "running"
          THEN [@ EXCEPT !.pc = "tasks", !.check_now = now,
                         !.todo = [id \in 1..Len(tasks) |-> id]]
          ELSE [@ EXCEPT !.pc = "wait", !.wait_start = now]]
    /\ UNCHANGED <<now, manager, tasks, request>>

\* lines 305-308: the task is enabled, has a next_run, and it is not later
\* than the now of line 302
Due(task, check_now) ==
    /\ task.enabled
    /\ task.next_run # None
    /\ TheValue(task.next_run) <= check_now

\* lines 315-316
Begin(task, t) == [task EXCEPT !.run_count = @ + 1, !.last_run = Some(t)]
\* lines 334-335
Succeed(task, t) ==
    [task EXCEPT !.success_count = @ + 1, !.next_run = CalculateNextRun(task, t)]
\* line 340
Fail(task) == [task EXCEPT !.error_count = @ + 1]

\* the worker goes on with the next task of the loop of line 304
NextTask(w) == [workers EXCEPT ![w].pc = "tasks", ![w].todo = Tail(@)]

\* one iteration of the loop of line 304, up to the call of the
\* on_analysis_complete callback if there is one; after the last task the
\* worker enters the wait of line 289
WorkerTask(w) ==
    /\ workers[w].pc = "tasks"
    /\ IF workers[w].todo = <<>>
       THEN /\ workers' = [workers EXCEPT ![w].pc = "wait", ![w].wait_start = now]
            /\ tasks' = tasks
       ELSE LET id == Head(workers[w].todo)
            IN IF ~Due(tasks[id], workers[w].check_now)
               THEN /\ workers' = NextTask(w)
                    /\ tasks' = tasks
               ELSE IF manager.on_analysis_complete
               THEN /\ workers' = [workers EXCEPT ![w].pc = "callback"]
                    /\ tasks' = [tasks EXCEPT ![id] = Begin(@, now)]
               ELSE /\ workers' = NextTask(w)
                    /\ tasks' = [tasks EXCEPT ![id] = Succeed(Begin(@, now), now)]
    /\ UNCHANGED <<now, manager, request>>

\* line 332: self.on_analysis_complete(task, analysis_result) returns, or
\* raises and control goes to the except branch of line 339
WorkerCallback(w, raises) ==
    /\ workers[w].pc = "callback"
    /\ LET id == Head(workers[w].todo)
       IN IF ~raises
          THEN /\ tasks' = [tasks EXCEPT ![id] = Succeed(@, now)]
               /\ workers' = NextTask(w)
          ELSE /\ tasks' = [tasks EXCEPT ![id] = Fail(@)]
               /\ workers' = IF manager.on_error
                             THEN [workers EXCEPT ![w].pc = "on_error"]
                             ELSE NextTask(w)
    /\ UNCHANGED <<now, manager, request>>

\* line 344: self.on_error(e) returns, or raises: the exception leaves
\* _execute_task and _check_and_execute_tasks and reaches line 291, where
\* the status becomes ERROR
WorkerOnError(w, raises) ==
    /\ workers[w].pc = "on_error"
    /\ IF ~raises
       THEN /\ workers' = NextTask(w)
            /\ manager' = manager
       ELSE /\ manager' = [manager EXCEPT !.status = "error"]
            /\ workers' = [workers EXCEPT ![w].pc =
                              IF manager.on_error THEN "worker_on_error" ELSE "done"]
    /\ UNCHANGED <<now, tasks, request>>

\* lines 294-296: self.on_error(e) returns and the loop is left, or raises
\* and the thread dies
WorkerOnErrorAgain(w, raises) ==
    /\ workers[w].pc = "worker_on_error"
    /\ workers' = [workers EXCEPT ![w].pc = IF raises THEN "crashed" ELSE "done"]
    /\ UNCHANGED <<now, manager, tasks, request>>

\* line 289: self.stop_event.wait(30) returns when the event is set or the
\* 30 seconds have passed
WorkerWait(w) ==
    /\ workers[w].pc = "wait"
    /\ manager.stop_event \/ now >= workers[w].wait_start + WaitTicks
    /\ workers' = [workers EXCEPT ![w].pc = "test"]
    /\ UNCHANGED <<now, manager, tasks, request>>

-----------------------------------------------------------------------------
(* The stand-alone portfolio: any sequence of calls *)

PfCapitals == {0, 100, 100000}
PfRates == {<<0, 0>>, <<1, 1>>, <<RateDen, RateDen>>}   \* <<commission, slippage>>
PfSides == {"BUY", "SELL", "HOLD"}
PfQuantities == {10, 100}
PfPrices == {100, 110}
PfPriceMaps == {[s \in {"A"} |-> 100], [s \in {"A", "B"} |-> 110]}

InitPortfolio ==
    /\ \E cap \in PfCapitals, r \in PfRates : pf = NewPortfolio(cap, r[1], r[2])
    /\ pf_trades = <<>>
    /\ ret = NoCall
    /\ calls = 0

\* no stand-alone portfolio is exercised
IdlePortfolio ==
    /\ pf = NewPortfolio(0, 0, 0)
    /\ pf_trades = <<>>
    /\ ret = NoCall
    /\ calls = 0

\* a call of pf.execute_trade(symbol, side, quantity, price, date)
PfExecuteTrade ==
    /\ calls < MaxCalls
    /\ \E symbol \in Symbols, side \in PfSides, quantity \in PfQuantities,
          price \in PfPrices :
         LET r == ExecuteTrade(pf, symbol, side, quantity, price, calls + 1, "Signal")
         IN /\ pf' = r.portfolio
            /\ pf_trades' = IF r.trade # None
                            THEN Append(pf_trades, TheValue(r.trade)) ELSE pf_trades
            /\ ret' = [op |-> "execute_trade", symbol |-> symbol, side |-> side,
                       quantity |-> quantity, price |-> price,
                       value |-> r.trade, before |-> pf]
    /\ calls' = calls + 1
    /\ UNCHANGED <<engineVars, callerVars, autoVars>>

\* a call of pf.update_prices(date, prices)
PfUpdatePrices ==
    /\ calls < MaxCalls
    /\ \E prices \in PfPriceMaps :
         /\ pf' = UpdatePrices(pf, calls + 1, prices)
         /\ ret' = [op |-> "update_prices", prices |-> prices, before |-> pf]
    /\ calls' = calls + 1
    /\ UNCHANGED <<pf_trades>>
    /\ UNCHANGED <<engineVars, callerVars, autoVars>>

\* no stand-alone provider is exercised and no request is in flight
IdleCallers ==
    /\ fetch_log = <<>>
    /\ request = NoCall

PortfolioInit == InitPortfolio /\ InitEngine /\ IdleCallers /\ IdleAutomation
PortfolioNext == PfExecuteTrade \/ PfUpdatePrices
PortfolioSpec == PortfolioInit /\ [][PortfolioNext]_vars

-----------------------------------------------------------------------------
(* The stand-alone DataProvider: any sequence of get_historical_data calls *)

MaxQueries == 3     \* upstream queries the stand-alone provider makes

\* what yf.Ticker(symbol).history(...) does: a frame with rows, a frame whose
\* rows are all dropped by dropna, an empty frame, an exception
ProviderUpstream == {Fetched(r) : r \in ShortSeries} \cup {AllNaN, EmptyFrame, FetchError}

\* a call of data_provider.get_historical_data(symbol, "start", "end"); the
\* upstream is queried exactly when the key is not in the cache (line 106)
ProviderGet ==
    /\ Len(fetch_log) < MaxQueries
    /\ \E symbol \in Symbols, upstream \in ProviderUpstream :
         LET key == CacheKey(symbol, "start", "end")
             queried == key \notin DOMAIN cache
             r == GetHistoricalData(cache, symbol, "start", "end", upstream)
         IN /\ cache' = r.cache
            /\ fetch_log' = IF queried
                            THEN Append(fetch_log, [key |-> key, kind |-> upstream.kind])
                            ELSE fetch_log
            /\ returned' = [op |-> "get_historical_data", key |-> key,
                            queried |-> queried, value |-> r.data]
    /\ UNCHANGED <<pfVars, now, results, active_backtests, completed_backtests,
                   executor_threads, threads, request, autoVars>>

ProviderInit == IdlePortfolio /\ InitEngine /\ IdleCallers /\ IdleAutomation
ProviderNext == ProviderGet
ProviderSpec == ProviderInit /\ [][ProviderNext]_vars

-----------------------------------------------------------------------------
(* _simulate_trading_signals alone, on the days of any loaded data *)

\* a long history that lost its first row: it starts one day later
LateRows(tail) == Tail(LongRows(tail))
LateSeries == {LateRows(t) : t \in Tails(TailLen) \ {<<>>}}

\* the data dicts of a run: symbol A loaded alone, or a full history of A
\* with a late history of B
SignalData ==
    {[s \in {"A"} |-> a] : a \in LongSeries \cup LateSeries}
    \cup {[s \in {"A", "B"} |-> IF s = "A" THEN ab[1] ELSE ab[2]] :
              ab \in LongSeries \X LateSeries}

\* the call of line 238 on day i of the calendar of data (the function keeps
\* no state: one call from the initial state shows all it does)
SignalCall ==
    /\ returned = NoCall
    /\ \E data \in SignalData :
         LET trading_dates == SortedSeq(AllDates(data))
         IN \E i \in 0..(Len(trading_dates) - 1) :
              returned' =
                 [op |-> "simulate_trading_signals", data |-> data,
                  current_date |-> trading_dates[i + 1], day_index |-> i,
                  value |-> SimulateTradingSignals(
                               IF DOMAIN data = {"A"} THEN <<"A">> ELSE <<"A", "B">>,
                               data, trading_dates[i + 1], i)]
    /\ UNCHANGED <<pfVars, callerVars, autoVars, now, results, active_backtests,
                   completed_backtests, executor_threads, cache, threads>>

SignalInit == IdlePortfolio /\ InitEngine /\ IdleCallers /\ IdleAutomation
SignalNext == SignalCall
SignalSpec == SignalInit /\ [][SignalNext]_vars

-----------------------------------------------------------------------------
(* The simulation loop of _run_backtest on two loads of one configuration *)

\* the insertion order of the data dict: config.symbols without the symbols
\* that returned nothing
DataOrder(config, data) == SelectSeq(config.symbols, LAMBDA s : s \in DOMAIN data)

PairConfigs == {Config(<<"A", "B">>, 100000, "A", 1, 1)}

\* what get_multiple_symbols can return for symbols A and B: A alone, or A
\* with the same history of B starting one day late
PairData ==
    {[s \in {"A"} |-> a] : a \in LongSeries}
    \cup {[s \in {"A", "B"} |-> IF s = "A" THEN LongRows(t) ELSE LateRows(t)] :
              t \in Tails(TailLen) \ {<<>>}}

\* the run backtest_id at line 200 and the frame of its worker at line 227,
\* data being what lines 207-209 returned
RunningResult(backtest_id, config) ==
    [NewResult(backtest_id, config, backtest_id) EXCEPT
        !.status = "running", !.started_at = Some(backtest_id)]
LoadedFrame(backtest_id, ref, config, data) ==
    Prepare([NewThread(backtest_id, ref) EXCEPT
                !.result = ref, !.order = DataOrder(config, data), !.data = data],
            config)

\* two runs of one configuration, created at seconds 0 and 1, each with its
\* worker at the head of the loop of line 227 on its own loaded data
PairInit ==
    /\ IdlePortfolio /\ IdleCallers /\ IdleAutomation
    /\ now = 1
    /\ \E config \in PairConfigs : \E data1 \in PairData :
         \E data2 \in {d \in PairData : DOMAIN d = DOMAIN data1} :
            /\ results = <<RunningResult(BacktestId(0), config),
                           RunningResult(BacktestId(1), config)>>
            /\ threads = <<LoadedFrame(BacktestId(0), 1, config, data1),
                           LoadedFrame(BacktestId(1), 2, config, data2)>>
    /\ active_backtests = [id \in {BacktestId(0), BacktestId(1)} |-> id + 1]
    /\ completed_backtests = EmptyDict
    /\ executor_threads = [id \in {BacktestId(0), BacktestId(1)} |-> id + 1]
    /\ cache = EmptyDict
    /\ returned = NoCall

\* the next iteration of the loop of the worker that is not ahead
PairDay(t) ==
    /\ \A u \in ThreadIds : threads[u].pc = "day" => threads[t].i <= threads[u].i
    /\ RunDay(t)

PairNext == \E t \in ThreadIds : PairDay(t) /\ UNCHANGED <<pfVars, callerVars, autoVars>>
PairSpec == PairInit /\ [][PairNext]_vars

-----------------------------------------------------------------------------
(* The registry with concurrent threads, on short histories *)

Init == IdlePortfolio /\ InitEngine /\ IdleCallers /\ IdleAutomation

Next ==
    \/ (Tick /\ UNCHANGED <<pfVars, callerVars, autoVars>>)
    \/ (\E config \in EngineConfigs : CreateBacktest(config, MaxRuns) /\ UNCHANGED <<pfVars, callerVars, autoVars>>)
    \/ (\E id \in Ids : StartBacktest(id, MaxThreads) /\ UNCHANGED <<pfVars, callerVars, autoVars>>)
    \/ (\E id \in Ids : GetBacktestResults(id) /\ UNCHANGED <<pfVars, callerVars, autoVars>>)
    \/ (\E t \in ThreadIds : RunLookup(t) /\ UNCHANGED <<pfVars, callerVars, autoVars>>)
    \/ (\E t \in ThreadIds : RunSetRunning(t) /\ UNCHANGED <<pfVars, callerVars, autoVars>>)
    \/ (\E t \in ThreadIds : RunSetStarted(t) /\ UNCHANGED <<pfVars, callerVars, autoVars>>)
    \/ (\E t \in ThreadIds : RunLoad(t) /\ UNCHANGED <<pfVars, callerVars, autoVars>>)
    \/ (\E t \in ThreadIds : RunFetch(t, ShortUpstream) /\ UNCHANGED <<pfVars, callerVars, autoVars>>)
    \/ (\E t \in ThreadIds : RunDay(t) /\ UNCHANGED <<pfVars, callerVars, autoVars>>)
    \/ (\E t \in ThreadIds : RunMetrics(t) /\ UNCHANGED <<pfVars, callerVars, autoVars>>)
    \/ (\E t \in ThreadIds : RunSetCompleted(t) /\ UNCHANGED <<pfVars, callerVars, autoVars>>)
    \/ (\E t \in ThreadIds : RunSetCompletedAt(t) /\ UNCHANGED <<pfVars, callerVars, autoVars>>)
    \/ (\E t \in ThreadIds : RunInsert(t) /\ UNCHANGED <<pfVars, callerVars, autoVars>>)
    \/ (\E t \in ThreadIds : RunDelete(t) /\ UNCHANGED <<pfVars, callerVars, autoVars>>)
    \/ (\E t \in ThreadIds : RunExceptStatus(t) /\ UNCHANGED <<pfVars, callerVars, autoVars>>)
    \/ (\E t \in ThreadIds : RunExceptMessage(t) /\ UNCHANGED <<pfVars, callerVars, autoVars>>)
    \/ (\E t \in ThreadIds : RunExceptCompletedAt(t) /\ UNCHANGED <<pfVars, callerVars, autoVars>>)
    \/ (\E t \in ThreadIds : RunFinallyCheck(t) /\ UNCHANGED <<pfVars, callerVars, autoVars>>)
    \/ (\E t \in ThreadIds : RunFinallyDel(t) /\ UNCHANGED <<pfVars, callerVars, autoVars>>)

Spec == Init /\ [][Next]_vars

-----------------------------------------------------------------------------
(* Runs created each in a second of its own and started once: the workers  *)
(* alone, and the workers with request threads that read the registry      *)

\* no run was created in the current second (ids do not collide)
FreshId == BacktestId(now) \notin DOMAIN active_backtests \cup DOMAIN completed_backtests

\* no worker was spawned for the id
NotStarted(backtest_id) == \A t \in ThreadIds : threads[t].backtest_id # backtest_id

WorkersNext ==
    \/ (Tick /\ UNCHANGED <<pfVars, callerVars, autoVars>>)
    \/ (FreshId /\ \E config \in EngineConfigs : CreateBacktest(config, MaxRuns)
          /\ UNCHANGED <<pfVars, callerVars, autoVars>>)
    \/ (\E id \in Ids : NotStarted(id) /\ StartBacktest(id, MaxThreads)
          /\ UNCHANGED <<pfVars, callerVars, autoVars>>)
    \/ (\E t \in ThreadIds : RunLookup(t) /\ UNCHANGED <<pfVars, callerVars, autoVars>>)
    \/ (\E t \in ThreadIds : RunSetRunning(t) /\ UNCHANGED <<pfVars, callerVars, autoVars>>)
    \/ (\E t \in ThreadIds : RunSetStarted(t) /\ UNCHANGED <<pfVars, callerVars, autoVars>>)
    \/ (\E t \in ThreadIds : RunLoad(t) /\ UNCHANGED <<pfVars, callerVars, autoVars>>)
    \/ (\E t \in ThreadIds : RunFetch(t, ShortUpstream) /\ UNCHANGED <<pfVars, callerVars, autoVars>>)
    \/ (\E t \in ThreadIds : RunDay(t) /\ UNCHANGED <<pfVars, callerVars, autoVars>>)
    \/ (\E t \in ThreadIds : RunMetrics(t) /\ UNCHANGED <<pfVars, callerVars, autoVars>>)
    \/ (\E t \in ThreadIds : RunSetCompleted(t) /\ UNCHANGED <<pfVars, callerVars, autoVars>>)
    \/ (\E t \in ThreadIds : RunSetCompletedAt(t) /\ UNCHANGED <<pfVars, callerVars, autoVars>>)
    \/ (\E t \in ThreadIds : RunInsert(t) /\ UNCHANGED <<pfVars, callerVars, autoVars>>)
    \/ (\E t \in ThreadIds : RunDelete(t) /\ UNCHANGED <<pfVars, callerVars, autoVars>>)
    \/ (\E t \in ThreadIds : RunExceptStatus(t) /\ UNCHANGED <<pfVars, callerVars, autoVars>>)
    \/ (\E t \in ThreadIds : RunExceptMessage(t) /\ UNCHANGED <<pfVars, callerVars, autoVars>>)
    \/ (\E t \in ThreadIds : RunExceptCompletedAt(t) /\ UNCHANGED <<pfVars, callerVars, autoVars>>)
    \/ (\E t \in ThreadIds : RunFinallyCheck(t) /\ UNCHANGED <<pfVars, callerVars, autoVars>>)
    \/ (\E t \in ThreadIds : RunFinallyDel(t) /\ UNCHANGED <<pfVars, callerVars, autoVars>>)

WorkersSpec == Init /\ [][WorkersNext]_vars

RegistryNext ==
    \/ WorkersNext
    \/ (\E id \in Ids : StatusCheck(id) /\ UNCHANGED <<pfVars, fetch_log, autoVars>>)
    \/ (StatusGet /\ UNCHANGED <<pfVars, fetch_log, autoVars>>)
    \/ (ListBacktests /\ UNCHANGED <<pfVars, callerVars, autoVars>>)

RegistrySpec == Init /\ [][RegistryNext]_vars

-----------------------------------------------------------------------------
(* One run, created and started once, on long histories *)

RunNext ==
    \/ (results = <<>> /\ \E config \in RunConfigs : CreateBacktest(config, MaxRuns)
          /\ UNCHANGED <<pfVars, callerVars, autoVars>>)
    \/ (threads = <<>> /\ \E id \in Ids : StartBacktest(id, MaxThreads)
          /\ UNCHANGED <<pfVars, callerVars, autoVars>>)
    \/ (\E t \in ThreadIds : RunLookup(t) /\ UNCHANGED <<pfVars, callerVars, autoVars>>)
    \/ (\E t \in ThreadIds : RunSetRunning(t) /\ UNCHANGED <<pfVars, callerVars, autoVars>>)
    \/ (\E t \in ThreadIds : RunSetStarted(t) /\ UNCHANGED <<pfVars, callerVars, autoVars>>)
    \/ (\E t \in ThreadIds : RunLoad(t) /\ UNCHANGED <<pfVars, callerVars, autoVars>>)
    \/ (\E t \in ThreadIds : RunFetch(t, LongUpstream) /\ UNCHANGED <<pfVars, callerVars, autoVars>>)
    \/ (\E t \in ThreadIds : RunDay(t) /\ UNCHANGED <<pfVars, callerVars, autoVars>>)
    \/ (\E t \in ThreadIds : RunDayRaise(t) /\ UNCHANGED <<pfVars, callerVars, autoVars>>)
    \/ (\E t \in ThreadIds : RunMetrics(t) /\ UNCHANGED <<pfVars, callerVars, autoVars>>)
    \/ (\E t \in ThreadIds : RunSetCompleted(t) /\ UNCHANGED <<pfVars, callerVars, autoVars>>)
    \/ (\E t \in ThreadIds : RunSetCompletedAt(t) /\ UNCHANGED <<pfVars, callerVars, autoVars>>)
    \/ (\E t \in ThreadIds : RunInsert(t) /\ UNCHANGED <<pfVars, callerVars, autoVars>>)
    \/ (\E t \in ThreadIds : RunDelete(t) /\ UNCHANGED <<pfVars, callerVars, autoVars>>)
    \/ (\E t \in ThreadIds : RunExceptStatus(t) /\ UNCHANGED <<pfVars, callerVars, autoVars>>)
    \/ (\E t \in ThreadIds : RunExceptMessage(t) /\ UNCHANGED <<pfVars, callerVars, autoVars>>)
    \/ (\E t \in ThreadIds : RunExceptCompletedAt(t) /\ UNCHANGED <<pfVars, callerVars, autoVars>>)
    \/ (\E t \in ThreadIds : RunFinallyCheck(t) /\ UNCHANGED <<pfVars, callerVars, autoVars>>)
    \/ (\E t \in ThreadIds : RunFinallyDel(t) /\ UNCHANGED <<pfVars, callerVars, autoVars>>)

RunSpec == Init /\ [][RunNext]_vars

-----------------------------------------------------------------------------
(* The AutomationManager under any sequence of control calls *)

AutomationRest == <<pfVars, fetch_log, results, active_backtests, completed_backtests, executor_threads, cache, threads, returned>>

AutomationInit ==
    /\ IdlePortfolio /\ InitEngine /\ fetch_log = <<>> /\ request = NoCall
    /\ InitAutomation

AutomationNext ==
    \/ (ClockTick /\ UNCHANGED AutomationRest)
    \/ (SetOnAnalysisComplete /\ UNCHANGED AutomationRest)
    \/ (SetOnError /\ UNCHANGED AutomationRest)
    \/ (StartAutomation /\ UNCHANGED AutomationRest)
    \/ (StopAutomation /\ UNCHANGED AutomationRest)
    \/ (JoinReturn /\ UNCHANGED AutomationRest)
    \/ (PauseAutomation /\ UNCHANGED AutomationRest)
    \/ (ResumeAutomation /\ UNCHANGED AutomationRest)
    \/ (\E w \in WorkerIds : WorkerTest(w) /\ UNCHANGED AutomationRest)
    \/ (\E w \in WorkerIds : WorkerStatus(w) /\ UNCHANGED AutomationRest)
    \/ (\E w \in WorkerIds : WorkerTask(w) /\ UNCHANGED AutomationRest)
    \/ (\E w \in WorkerIds : \E raises \in BOOLEAN : WorkerCallback(w, raises) /\ UNCHANGED AutomationRest)
    \/ (\E w \in WorkerIds : \E raises \in BOOLEAN : WorkerOnError(w, raises) /\ UNCHANGED AutomationRest)
    \/ (\E w \in WorkerIds : \E raises \in BOOLEAN : WorkerOnErrorAgain(w, raises) /\ UNCHANGED AutomationRest)
    \/ (\E w \in WorkerIds : WorkerWait(w) /\ UNCHANGED AutomationRest)

AutomationSpec == AutomationInit /\ [][AutomationNext]_vars

-----------------------------------------------------------------------------
(* Properties *)

Refs == 1..Len(results)

\* C1: every equity point of every run satisfies
\* equity = cash + positions_value, also on days with accepted trades.
C1_EquityIdentity ==
    \A r \in Refs : \A k \in 1..Len(results[r].equity_curve) :
        LET point == results[r].equity_curve[k]
        IN point.equity = point.cash + point.positions_value

\* the status transitions the run state machine allows
Forward(from, to) ==
    \/ from = to
    \/ (from = "pending" /\ to = "running")
    \/ (from = "running" /\ to \in {"completed", "failed"})

\* C2: the status of a run only moves pending -> running -> completed or
\* running -> failed, and never leaves completed or failed.
C2_StatusForward ==
    [][\A r \in Refs : Forward(results[r].status, results'[r].status)]_vars

\* C3: start_backtest spawns at most one thread per run: no two threads
\* were spawned for the same BacktestResult, and start_backtest returns
\* True only for a run no thread was spawned for.
C3_SingleWorker ==
    /\ \A t1, t2 \in ThreadIds : threads[t1].seen = threads[t2].seen => t1 = t2
    /\ (returned.op = "start_backtest" /\ returned.value)
          => \A t \in 1..(Len(threads) - 1) :
                threads[t].seen # threads[Len(threads)].seen

\* C4: once the thread of a run has finished, the run is in the completed
\* map and no longer in the active map, whatever its final status.
C4_FinishedRunsMoved ==
    \A t \in ThreadIds : threads[t].pc = "done" =>
        LET id == threads[t].backtest_id
        IN /\ id \in DOMAIN completed_backtests
           /\ completed_backtests[id] = threads[t].result
           /\ id \notin DOMAIN active_backtests

\* C5: get_backtest_results returns None for an unknown id and for the id
\* of a pending or running run, and a record it returns is completed and
\* has metrics.
C5_ResultsOnlyCompleted ==
    returned.op = "get_backtest_results" =>
        LET runs == {r \in Refs : results[r].id = returned.id}
        IN /\ returned.value # None =>
                /\ results[TheValue(returned.value)].status = "completed"
                /\ results[TheValue(returned.value)].metrics # None
           /\ (runs = {} \/ \E r \in runs : results[r].status \in {"pending", "running"})
                => returned.value = None

\* trade_value + commission of an order, in units of 1/Money, as the
\* contract states it: quantity x price x (1 + slippage) x (1 + commission)
ContractCost(p, quantity, price) ==
    quantity * price * (RateDen + p.slippage) * (RateDen + p.commission)

\* quantity x price x (1 - slippage) x (1 - commission)
ContractProceeds(p, quantity, price) ==
    quantity * price * (RateDen - p.slippage) * (RateDen - p.commission)

Accepted == ret.op = "execute_trade" /\ ret.value # None
Refused == ret.op = "execute_trade" /\ ret.value = None

\* C6: the cash is never negative, and an accepted BUY was affordable:
\* the cash before it covered trade_value + commission.
C6_NoNegativeCash ==
    /\ pf.cash >= 0
    /\ (Accepted /\ ret.side = "BUY")
          => ret.before.cash >= ContractCost(ret.before, ret.quantity, ret.price)

C6_Witness ==
    /\ Accepted /\ ret.side = "BUY"
    /\ pf.cash < ret.before.cash
    /\ pf.commission > 0

\* C7: no held quantity is negative, and a SELL of more than is held is
\* refused.
C7_NoOversell ==
    /\ \A s \in DOMAIN pf.positions : pf.positions[s] >= 0
    /\ (ret.op = "execute_trade" /\ ret.side = "SELL"
          /\ ret.quantity > Get(ret.before.positions, ret.symbol, 0))
          => ret.value = None

C7_Witness ==
    /\ Refused /\ ret.side = "SELL"
    /\ Get(ret.before.positions, ret.symbol, 0) > 0
    /\ ret.quantity > Get(ret.before.positions, ret.symbol, 0)

\* the three reasons to refuse an order
MustRefuse ==
    \/ (ret.side = "BUY"
          /\ ret.before.cash < ContractCost(ret.before, ret.quantity, ret.price))
    \/ (ret.side = "SELL"
          /\ Get(ret.before.positions, ret.symbol, 0) < ret.quantity)
    \/ ret.side \notin {"BUY", "SELL"}

\* C8: an order that must be refused returns None, and a call that returns
\* None leaves the whole portfolio (cash, positions, current_prices,
\* positions_value, total_value) as it was.
C8_RefusalChangesNothing ==
    ret.op = "execute_trade" =>
        /\ MustRefuse => ret.value = None
        /\ ret.value = None => pf = ret.before

C8_Witness ==
    /\ Refused /\ ret.side = "HOLD"
    /\ ret.symbol \in DOMAIN pf.positions
    /\ pf.cash > 0

RECURSIVE Ledger(_)
\* what the returned trades add up to: minus cost for a BUY, plus proceeds
\* for a SELL, in units of 1/Money
Ledger(trades) ==
    IF trades = <<>> THEN 0
    ELSE LET t == Head(trades)
         IN (IF t.side = "BUY"
             THEN -(t.quantity * t.entry_price * RateDen + t.commission)
             ELSE t.quantity * TheValue(t.exit_price) * RateDen - t.commission)
            + Ledger(Tail(trades))

\* C9: the cash is the initial capital minus the cost of the accepted BUYs
\* plus the proceeds of the accepted SELLs; refused calls count for nothing.
C9_CashConservation == pf.cash = pf.initial_capital + Ledger(pf_trades)

C9_Witness ==
    /\ Len(pf_trades) = 2 /\ calls = 3
    /\ pf_trades[1].side = "BUY" /\ pf_trades[2].side = "SELL"
    /\ pf_trades[2].commission > 0

\* C10: every closed trade (exit_date set) carries its realized pnl.
C10_ClosedTradesHavePnl ==
    \A k \in 1..Len(pf_trades) :
        pf_trades[k].exit_date # None => pf_trades[k].pnl # None


\* the run has computed its metrics on a non-empty equity curve and none of
\* its trades is closed
NoClosedTrade(r) ==
    /\ results[r].metrics # None
    /\ results[r].equity_curve # <<>>
    /\ \A k \in 1..Len(results[r].trades) : results[r].trades[k].exit_date = None

\* the benchmark is one of the run's symbols and its cached series has no row
BenchmarkEmpty(r) ==
    LET config == results[r].config
        key == CacheKey(config.benchmark, config.start_date, config.end_date)
    IN /\ \E k \in 1..Len(config.symbols) : config.symbols[k] = config.benchmark
       /\ key \in DOMAIN cache
       /\ cache[key] = <<>>

\* C11 as stated: with no closed trade and a non-empty equity curve,
\* _calculate_metrics yields win_rate = 0 and profit_factor = 0.
C11_ProfitFactorZero ==
    \A r \in Refs : NoClosedTrade(r) =>
        /\ TheValue(results[r].metrics).win_rate = Zero
        /\ TheValue(results[r].metrics).profit_factor = Zero

\* C11 amended: with no closed trade and a non-empty equity curve,
\* _calculate_metrics yields win_rate = 0 and profit_factor = infinity; both
\* are 0 only in the all-zero record returned when the computation raised
\* (the benchmark series has no row).
C11_ProfitFactorInf ==
    \A r \in Refs : NoClosedTrade(r) =>
        /\ TheValue(results[r].metrics).win_rate = Zero
        /\ TheValue(results[r].metrics).profit_factor =
               IF BenchmarkEmpty(r) THEN Zero ELSE Inf

\* a run with open trades only got its metrics from the normal branch
C11_Witness ==
    \E r \in Refs :
        /\ NoClosedTrade(r)
        /\ results[r].trades # <<>>
        /\ ~BenchmarkEmpty(r)
        /\ TheValue(results[r].metrics).profit_factor = Inf


\* C12: in every reachable state of a run the dates of its equity curve are
\* strictly increasing (no duplicate): each date of the calendar contributes
\* at most one equity point.
C12_DatesIncreasing ==
    \A r \in Refs : \A k \in 1..(Len(results[r].equity_curve) - 1) :
        results[r].equity_curve[k].date.iso < results[r].equity_curve[k + 1].date.iso


\* the provider returned no series for any symbol of the run: a returned
\* series is always stored in the cache (line 122)
NoSeries(r) ==
    LET config == results[r].config
    IN \A k \in 1..Len(config.symbols) :
           CacheKey(config.symbols[k], config.start_date, config.end_date)
               \notin DOMAIN cache

\* every worker thread of run r has ended, and there is one
Ended(r) ==
    /\ \E t \in ThreadIds : threads[t].result = r
    /\ \A t \in ThreadIds : threads[t].result = r => threads[t].pc = "done"

\* C13: if the provider returns no series for any configured symbol, the
\* started run ends failed, with a non-empty error_message, completed_at
\* set, no trade, no equity point and no metrics.
C13_NoDataFails ==
    \A r \in Refs : (Ended(r) /\ NoSeries(r)) =>
        /\ results[r].status = "failed"
        /\ results[r].error_message # None
        /\ TheValue(results[r].error_message) # ""
        /\ results[r].completed_at # None
        /\ results[r].trades = <<>>
        /\ results[r].equity_curve = <<>>
        /\ results[r].metrics = None

\* a run has ended after a load that found nothing
C13_Witness ==
    \E r \in Refs :
        /\ Ended(r)
        /\ NoSeries(r)
        /\ results[r].status = "failed"
        /\ results[r].error_message = Some("Aucune donnee historique disponible")


\* s is an initial part of q
IsPrefix(s, q) == Len(s) <= Len(q) /\ SubSeq(q, 1, Len(s)) = s

\* C14: once an exception was raised in the simulation loop, every step
\* keeps the trades and the equity points recorded before it (no rollback),
\* and the except branch leaves the run failed with error_message and
\* completed_at set.
C14_LoopExceptionFails ==
    [][\A t \in ThreadIds :
         LET r == threads[t].result
         IN threads[t].error = Some(LoopError) =>
              /\ IsPrefix(results[r].trades, results'[r].trades)
              /\ IsPrefix(results[r].equity_curve, results'[r].equity_curve)
              /\ threads'[t].pc \in {"finally", "finally_del", "done"} =>
                   /\ results'[r].status = "failed"
                   /\ results'[r].error_message = Some(LoopError)
                   /\ results'[r].completed_at # None]_vars

\* a run that had recorded trades and equity points when the loop raised has
\* been through the except branch
C14_Witness ==
    \E t \in ThreadIds :
        /\ threads[t].error = Some(LoopError)
        /\ threads[t].pc = "finally"
        /\ results[threads[t].result].status = "failed"
        /\ results[threads[t].result].trades # <<>>
        /\ results[threads[t].result].equity_curve # <<>>


\* the fields of BacktestMetrics: those held as rationals, and those held as
\* integers (counts, and amounts of money in units of 1/Money)
RatioFields ==
    {"total_return", "annual_return", "volatility", "sharpe_ratio",
     "max_drawdown", "win_rate", "profit_factor", "avg_win", "avg_loss",
     "benchmark_return", "alpha", "beta"}
IntegerFields ==
    {"total_trades", "winning_trades", "losing_trades", "largest_win",
     "largest_loss"}

\* m is a BacktestMetrics whose seventeen fields are all zero
AllZero(m) ==
    /\ DOMAIN m = RatioFields \cup IntegerFields
    /\ Cardinality(DOMAIN m) = 17
    /\ \A f \in RatioFields : m[f] = Zero
    /\ \A f \in IntegerFields : m[f] = 0

\* the run's worker has ended after calling _calculate_metrics on inputs that
\* make it raise: it loaded a series, the loop did not raise, and the equity
\* curve is empty or the benchmark series has no row
MetricsRaised(r) ==
    /\ Ended(r)
    /\ ~NoSeries(r)
    /\ results[r].error_message # Some(LoopError)
    /\ (results[r].equity_curve = <<>> \/ BenchmarkEmpty(r))

\* C15: if the metric computation raises, _calculate_metrics returns the
\* record whose seventeen fields are all zero and the run still ends
\* completed.
C15_MetricsErrorGivesZeros ==
    \A r \in Refs : MetricsRaised(r) =>
        /\ results[r].metrics # None
        /\ AllZero(TheValue(results[r].metrics))
        /\ results[r].status = "completed"
        /\ results[r].error_message = None

\* a run whose only series lost every row has ended completed, with zeros
C15_Witness ==
    \E r \in Refs :
        /\ MetricsRaised(r)
        /\ results[r].equity_curve = <<>>
        /\ results[r].status = "completed"
        /\ results[r].metrics = Some(ZeroMetrics)


\* C16 as stated: on one DataProvider the upstream is queried at most once
\* per distinct key, whatever the first query returned (data, empty, error).
C16_QueriedOncePerKey ==
    \A i, j \in 1..Len(fetch_log) :
        i < j => fetch_log[i].key # fetch_log[j].key

\* C16 amended: on one DataProvider the upstream is queried at most once per
\* distinct key after a query that returned a frame with rows: every later
\* call on that key is answered from the cache.  A query that returned an
\* empty frame or raised is not cached, and the next call queries again.
C16_QueriedOnceAfterData ==
    \A i, j \in 1..Len(fetch_log) :
        (i < j /\ fetch_log[i].key = fetch_log[j].key) =>
            fetch_log[i].kind \in {"empty", "error"}

\* a call was answered from the cache, after a query on its key that
\* returned rows and an earlier one that returned nothing
C16_Witness ==
    /\ returned.op = "get_historical_data"
    /\ ~returned.queried
    /\ returned.value # None
    /\ \E i, j \in 1..Len(fetch_log) :
         /\ i < j
         /\ fetch_log[i].key = returned.key
         /\ fetch_log[j].key = returned.key
         /\ fetch_log[j].kind = "data"


\* thread t takes a step of the data load, for this cache key
LoadKey(t) ==
    LET config == results[threads[t].result].config
    IN CacheKey(Head(threads[t].symbols_left), config.start_date, config.end_date)
Loads(t) == threads[t].pc = "load" /\ threads'[t] # threads[t]

Created(backtest_id) == \E r \in Refs : results[r].id = backtest_id

\* C18: for every id create_backtest returned, get_backtest_status(id),
\* interleaved at any point with the run's worker, returns a summary of the
\* run: never not-found, never an exception.
C18_StatusAlwaysFound ==
    (returned.op = "get_backtest_status" /\ Created(returned.id)) =>
        /\ ~returned.raised
        /\ returned.value # None
        /\ TheValue(returned.value).id = returned.id

\* C19: list_backtests returns every run created so far exactly once, by
\* created_at descending, in every reachable state.
C19_ListedOnceSorted ==
    returned.op = "list_backtests" =>
        LET v == returned.value
        IN /\ \A r \in Refs : Cardinality({k \in 1..Len(v) : v[k].ref = r}) = 1
           /\ \A k \in 1..(Len(v) - 1) : v[k].created_at >= v[k + 1].created_at


\* every worker thread that was spawned has ended
AllEnded == \A t \in ThreadIds : threads[t].pc \in {"done", "crashed"}

\* C20: every run for which start_backtest returned True eventually reaches
\* completed or failed; workers scheduled fairly all end, so once every
\* spawned worker has ended each run a start_backtest call accepted is
\* completed or failed.
C20_StartedRunsFinish ==
    AllEnded =>
        \A t \in ThreadIds :
            results[threads[t].seen].status \in {"completed", "failed"}


\* the rows of the symbol's own series dated strictly before date, and the
\* Window rows ending at date
RowsBefore(series, date) == {k \in 1..Len(series) : series[k].date < date}
RowsEndingAt(series, date) ==
    {k \in 1..Len(series) :
        /\ series[k].date <= date
        /\ Cardinality({j \in 1..Len(series) :
               series[k].date < series[j].date /\ series[j].date <= date}) < Window}

RECURSIVE SumEndingAt(_, _, _)
\* the closes of the rows k.. of the series that are among the Window rows
\* ending at date, added up
SumEndingAt(series, date, k) ==
    IF k > Len(series) THEN 0
    ELSE (IF k \in RowsEndingAt(series, date) THEN series[k].Close ELSE 0)
         + SumEndingAt(series, date, k + 1)

\* what the momentum rule asks for a symbol on a date: close against the
\* mean of the Window closes ending at the date, by 2 percent
Momentum(series, date) ==
    LET total == SumEndingAt(series, date, 1)
        close == CloseAt(series, date)
    IN  IF close * Window * 100 > 102 * total THEN "BUY"
        ELSE IF close * Window * 100 < 98 * total THEN "SELL"
        ELSE "none"

\* the symbol has a row on the date and at least Window rows before it
HasHistory(series, date) ==
    date \in Dates(series) /\ Cardinality(RowsBefore(series, date)) >= Window

\* C21: _simulate_trading_signals emits a signal for a symbol on a date only
\* if the symbol has at least 20 rows of its own series strictly before the
\* date, at most one signal per symbol, BUY when close > 1.02 x the mean of
\* the 20 closes ending at the date, SELL when close < 0.98 x that mean, and
\* nothing otherwise.
C21_MomentumRule ==
    returned.op = "simulate_trading_signals" =>
        LET v == returned.value
            data == returned.data
            date == returned.current_date
        IN /\ \A k \in 1..Len(v) :
                /\ v[k].symbol \in DOMAIN data
                /\ HasHistory(data[v[k].symbol], date)
                /\ v[k].side = Momentum(data[v[k].symbol], date)
                /\ v[k].price = CloseAt(data[v[k].symbol], date)
                /\ \A j \in 1..Len(v) : v[j].symbol = v[k].symbol => j = k
           /\ \A s \in DOMAIN data :
                (HasHistory(data[s], date) /\ Momentum(data[s], date) # "none") =>
                    \E k \in 1..Len(v) : v[k].symbol = s

\* on one day a symbol with 20 rows before it gets a BUY, and a symbol whose
\* close is as far from its mean but with 19 rows before it gets nothing
C21_Witness ==
    /\ returned.op = "simulate_trading_signals"
    /\ DOMAIN returned.data = {"A", "B"}
    /\ \E k \in 1..Len(returned.value) :
         returned.value[k].symbol = "A" /\ returned.value[k].side = "BUY"
    /\ returned.current_date \in Dates(returned.data["B"])
    /\ Cardinality(RowsBefore(returned.data["B"], returned.current_date)) = Window - 1
    /\ CloseAt(returned.data["B"], returned.current_date) = 110
    /\ \A k \in 1..Len(returned.value) : returned.value[k].symbol # "B"


\* the rows of symbol dated d or earlier in a loaded data dict
RowsUpTo(data, symbol, d) ==
    IF symbol \in DOMAIN data
    THEN SelectSeq(data[symbol], LAMBDA row : row.date <= d) ELSE <<>>
AgreeUpTo(data1, data2, d) ==
    \A symbol \in DOMAIN data1 \cup DOMAIN data2 :
        RowsUpTo(data1, symbol, d) = RowsUpTo(data2, symbol, d)
\* worker t has finished the iterations of every trading date up to d
SimulatedUpTo(t, d) ==
    /\ threads[t].pc \in {"day", "metrics"}
    /\ \A k \in 1..Len(threads[t].trading_dates) :
          threads[t].trading_dates[k] <= d => k <= threads[t].i
TradesUpTo(result, d) == SelectSeq(result.trades, LAMBDA trade : trade.entry_date <= d)
EquityUpTo(result, d) == SelectSeq(result.equity_curve, LAMBDA point : point.date.iso <= d)
LastDate == Window + TailLen

\* C22: two runs of one configuration whose loaded series agree on every
\* date up to d have recorded the same trades and the same equity points for
\* the dates up to d
C22_NoLookAhead ==
    \A t1 \in ThreadIds : \A t2 \in {t \in ThreadIds : t > t1} : \A d \in 0..LastDate :
        LET r1 == results[threads[t1].result]
            r2 == results[threads[t2].result]
        IN (/\ r1.config = r2.config
            /\ AgreeUpTo(threads[t1].data, threads[t2].data, d)
            /\ SimulatedUpTo(t1, d) /\ SimulatedUpTo(t2, d))
           => /\ TradesUpTo(r1, d) = TradesUpTo(r2, d)
              /\ EquityUpTo(r1, d) = EquityUpTo(r2, d)

\* two finished loops on series that agree up to the day of the first trade
\* and differ the day after, where the runs then trade differently
C22_Witness ==
    /\ Len(threads) = 2 /\ Len(results) = 2
    /\ threads[1].pc = "metrics" /\ threads[2].pc = "metrics"
    /\ AgreeUpTo(threads[1].data, threads[2].data, Window + 1)
    /\ ~AgreeUpTo(threads[1].data, threads[2].data, Window + 2)
    /\ TradesUpTo(results[1], Window + 1) # <<>>
    /\ TradesUpTo(results[1], Window + 1) = TradesUpTo(results[2], Window + 1)
    /\ results[1].trades # results[2].trades
    /\ results[1].equity_curve # results[2].equity_curve


\* C23: an accepted trade is priced at price * (1 + slippage) for a BUY and
\* price * (1 - slippage) for a SELL, and its commission is quantity *
\* execution price * commission rate; without slippage and commission,
\* buying 100 at 100 from a cash of 100000 leaves 90000 and selling 100 at
\* 110 from a cash of 90000 leaves 101000
C23_ExecutionPriceAndCommission ==
    (ret.op = "execute_trade" /\ ret.value # None) =>
        LET trade == TheValue(ret.value)
            before == ret.before
            free == before.commission = 0 /\ before.slippage = 0
        IN /\ ret.side \in {"BUY", "SELL"}
           /\ ret.side = "BUY" =>
                 trade.entry_price = ret.price * (RateDen + before.slippage)
           /\ ret.side = "SELL" =>
                 trade.entry_price = ret.price * (RateDen - before.slippage)
           /\ trade.commission = ret.quantity * trade.entry_price * before.commission
           /\ (free /\ ret.side = "BUY" /\ ret.quantity = 100 /\ ret.price = 100
                 /\ before.cash = 100000 * Money) => pf.cash = 90000 * Money
           /\ (free /\ ret.side = "SELL" /\ ret.quantity = 100 /\ ret.price = 110
                 /\ before.cash = 90000 * Money) => pf.cash = 101000 * Money

\* 100 bought at 100 from a cash of 100000 and then sold at 110, without
\* slippage and commission
C23_Witness ==
    /\ ret.op = "execute_trade" /\ ret.value # None
    /\ pf.commission = 0 /\ pf.slippage = 0
    /\ pf.initial_capital = 100000 * Money
    /\ Len(pf_trades) = 2
    /\ pf_trades[1].side = "BUY" /\ pf_trades[1].quantity = 100
    /\ pf_trades[1].entry_price = 100 * RateDen
    /\ pf_trades[2].side = "SELL" /\ pf_trades[2].quantity = 100
    /\ pf_trades[2].entry_price = 110 * RateDen
    /\ ret.before.cash = 90000 * Money
    /\ pf.cash = 101000 * Money

\* the symbols held with a known price
Valued(p) == DOMAIN p.positions \cap DOMAIN p.current_prices

\* C24: after update_prices(date, prices) every symbol of the map has the
\* price of the map and every other symbol keeps its most recent earlier
\* price, positions_value is the sum over the held symbols of quantity times
\* that price, total_value is cash + positions_value, and cash and positions
\* are unchanged
C24_UpdatePricesValuation ==
    ret.op = "update_prices" =>
        LET before == ret.before
        IN /\ DOMAIN pf.current_prices = DOMAIN before.current_prices \cup DOMAIN ret.prices
           /\ \A s \in DOMAIN pf.current_prices :
                 pf.current_prices[s] = IF s \in DOMAIN ret.prices THEN ret.prices[s]
                                        ELSE before.current_prices[s]
           /\ pf.positions_value =
                 SumOver([s \in Valued(pf) |-> pf.positions[s] * pf.current_prices[s] * Money],
                         Valued(pf))
           /\ pf.total_value = pf.cash + pf.positions_value
           /\ pf.cash = before.cash
           /\ pf.positions = before.positions

\* symbol B, held and priced at 110 earlier, is absent from the day's map
\* and is valued at 110
C24_Witness ==
    /\ ret.op = "update_prices"
    /\ "B" \in DOMAIN pf.positions
    /\ "B" \notin DOMAIN ret.prices
    /\ "B" \in DOMAIN ret.before.current_prices
    /\ pf.positions_value = pf.positions["B"] * 110 * Money


\* worker t holds the loaded data of a run that has become completed
CompletedWithData(t) ==
    /\ threads[t].pc \in {"set_completed_at", "insert", "delete", "finally", "finally_del"}
    /\ results[threads[t].result].status = "completed"
    /\ results[threads[t].result].metrics # None
BenchmarkLoaded(t) ==
    results[threads[t].result].config.benchmark \in DOMAIN threads[t].data
BenchmarkRows(t) ==
    IF BenchmarkLoaded(t)
    THEN threads[t].data[results[threads[t].result].config.benchmark] ELSE <<>>
\* a - b for two ratios
Minus(a, b) == Rat(a[1] * b[2] - b[1] * a[2], a[2] * b[2])
AlphaBetaSet(m) == m.alpha = Minus(m.total_return, m.benchmark_return) /\ m.beta = Rat(1, 1)
AlphaBetaZero(m) == m.benchmark_return = Zero /\ m.alpha = Zero /\ m.beta = Zero

\* C25 as stated: in the metrics of a completed run, alpha = total_return -
\* benchmark_return and beta = 1 exactly when the benchmark's series was
\* loaded; otherwise benchmark_return, alpha and beta are 0.
C25_AlphaBetaWhenLoaded ==
    \A t \in ThreadIds : CompletedWithData(t) =>
        LET m == TheValue(results[threads[t].result].metrics)
        IN IF BenchmarkLoaded(t) THEN AlphaBetaSet(m) ELSE AlphaBetaZero(m)

\* C25 amended: in the metrics of a completed run, alpha = total_return -
\* benchmark_return and beta = 1 exactly when the benchmark's series was
\* loaded with at least one row; when it was not loaded, or was loaded
\* without a row (the computation raises and returns the all-zero record),
\* benchmark_return, alpha and beta are 0.
C25_AlphaBetaWhenComputed ==
    \A t \in ThreadIds : CompletedWithData(t) =>
        LET m == TheValue(results[threads[t].result].metrics)
        IN IF BenchmarkRows(t) # <<>> THEN AlphaBetaSet(m) ELSE AlphaBetaZero(m)

\* a completed run whose benchmark was loaded with rows and whose return
\* differs from the benchmark's
C25_Witness ==
    \E t \in ThreadIds :
        /\ CompletedWithData(t)
        /\ BenchmarkRows(t) # <<>>
        /\ TheValue(results[threads[t].result].metrics).beta = Rat(1, 1)
        /\ TheValue(results[threads[t].result].metrics).alpha[1] # 0


\* C26: once the status of a run is completed, no step of any worker or
\* registry call changes its trade list, its equity curve or its metrics.
C26_CompletedRunFrozen ==
    [][\A r \in Refs : results[r].status = "completed" =>
          /\ results'[r].trades = results[r].trades
          /\ results'[r].equity_curve = results[r].equity_curve
          /\ results'[r].metrics = results[r].metrics]_vars


\* C27: in every reachable state a pending run has neither started_at nor
\* completed_at, a running run has started_at and no completed_at, and a
\* completed or failed run has both.
C27_TimestampsMatchStatus ==
    \A r \in Refs :
        /\ results[r].status = "pending" =>
              results[r].started_at = None /\ results[r].completed_at = None
        /\ results[r].status = "running" =>
              results[r].started_at # None /\ results[r].completed_at = None
        /\ results[r].status \in {"completed", "failed"} =>
              results[r].started_at # None /\ results[r].completed_at # None


\* C28: every create_backtest call returns an identifier that no earlier run
\* has, and adds a new pending run under it without replacing or removing
\* any run of the registry, also when two calls fall in the same second.
C28_FreshIdentifier ==
    [][returned'.op = "create_backtest" =>
          /\ \A r \in Refs : results[r].id # returned'.value
          /\ results'[returned'.ref].status = "pending"
          /\ active_backtests'[returned'.value] = returned'.ref
          /\ \A id \in DOMAIN active_backtests :
                /\ id \in DOMAIN active_backtests'
                /\ active_backtests'[id] = active_backtests[id]
          /\ completed_backtests' = completed_backtests]_vars


\* the worker threads that have not ended
LiveWorkers == {w \in WorkerIds : ~WorkerEnded(w)}

\* C29: after any sequence of start_automation, stop_automation,
\* pause_automation and resume_automation calls at most one automation
\* worker thread is live.
C29_SingleLiveWorker == Cardinality(LiveWorkers) <= 1

\* C30: a ONCE task is executed at most once by the worker, however many
\* times the worker polls, also when its on_analysis_complete callback
\* raised during the first execution (one worker thread was spawned).
C30_OnceTaskRunsOnce ==
    Len(workers) <= 1 =>
        \A id \in 1..Len(tasks) :
            tasks[id].schedule_type = "once" => tasks[id].run_count <= 1

====
